---- MODULE Spec2Model ----
(***************************************************************************)
(* Highlights derivation engine of the Wrestling Universe Tracker          *)
(* (src/app.py): the dry-run derivation of achievement labels from the     *)
(* match history, the team resolution of a side, and the persistence of    *)
(* the derived labels with its watermark, run over SQLite connections.     *)
(*                                                                         *)
(* Tables are modelled as follows.  matches is a sequence whose index is   *)
(* the AUTOINCREMENT id.  match_participants and tag_team_members are sets *)
(* of the tuples their UNIQUE / PRIMARY KEY constraints keep distinct.     *)
(* highlight_types is a sequence of rows (index = id).  wrestler_highlights*)
(* and team_highlights are bags of rows, so that the PRIMARY KEY of the    *)
(* schema is something the model has to keep, not something it assumes.    *)
(* highlight_runs is a sequence of rows (index = id).                      *)
(***************************************************************************)
EXTENDS Integers, Sequences, FiniteSets, Bags, TLC

VARIABLES
    matches,              \* committed rows of table matches
    match_participants,   \* committed rows of table match_participants
    tag_team_members,     \* committed rows of table tag_team_members
    highlight_types,      \* committed rows of table highlight_types
    wrestler_highlights,  \* committed rows of table wrestler_highlights
    team_highlights,      \* committed rows of table team_highlights
    highlight_runs,       \* committed rows of table highlight_runs
    lock,                 \* the connection holding SQLite's write lock, or NoConn
    txn,                  \* the lock holder's uncommitted tables, or NoTxn
    pc,                   \* per connection: position inside its handler
    req,                  \* per connection: the request being served
    results,              \* per connection: the dict returned by dry_run_all
    inserted,             \* per connection: the handler's counter "inserted"
    response,             \* per connection: the last response sent
    hist                  \* history of the runs, read only by the properties

vars == <<matches, match_participants, tag_team_members, highlight_types,
          wrestler_highlights, team_highlights, highlight_runs, lock, txn,
          pc, req, results, inserted, response, hist>>

dbvars == <<matches, match_participants, tag_team_members>>
hlvars == <<highlight_types, wrestler_highlights, team_highlights, highlight_runs>>
connvars == <<pc, req, results, inserted, response>>

---------------------------------------------------------------------------
\* SQL NULL.  Every nullable integer column of the model (winner_side,
\* day_index, order_in_day, last_match_id) only holds values >= 1 otherwise.
NULL == 0

\* Bounds of the model: the matches imported, the highlight_runs rows
\* written and the teams registered under each specification.
MaxMatches == 2
MaxRuns == 2
MaxTeams == 1
MaxVis == 3
MaxDerive == 3
MaxRoster == 3
MaxFinals == 1
MaxSideMatches == 1
MaxSideTeams == 2
MaxEdits == 3
MaxFamily == 3
MaxEditMatches == 2
MaxEditTeams == 2

Wrestlers == 1 .. 4
Seasons == {1, 2}
Conns == {"c1", "c2"}
NoConn == "none"

---------------------------------------------------------------------------
\* Round and tournament names, exactly as spelled in the source.
ROUND_QF == "Quarter Final"
ROUND_SF == "Semi Final"
ROUND_F == "Final"

T_WORLD_MEN == "Mens World Championship"
T_WORLD_WOMEN == "Womens World Championship"
T_TAG_WORLD == "Tag Team World Championship"
T_NXT_MEN == "Mens NXT Championship"
T_NXT_WOMEN == "Womens NXT Championship"
T_UNDERGROUND_MEN == "Mens Underground Championship"
T_UNDERGROUND_WOMEN == "Womens Underground Championship"
T_HARDCORE_MEN == "Mens Hardcore Championship"
T_HARDCORE_WOMEN == "Womens Hardcore Championship"
T_RUMBLE_MEN == "Mens Royal Rumble"
T_RUMBLE_WOMEN == "Womens Royal Rumble"
T_ELIM_MEN == "Mens Elimination Chamber"
T_ELIM_WOMEN == "Womens Elimination Chamber"
T_ANDRE_MEN == "Mens Andre Battle Royal"
T_CHYNA_WOMEN == "Womens Chyna Battle Royal"
T_DUSTY_MEN == "Mens Dusty Rhodes Gauntlet"
T_MAE_WOMEN == "Womens Mae Young Gauntlet"
T_US_MEN == "Mens US Championship"
T_US_WOMEN == "Womens US Championship"

\* SQL lower(): the lower-case form of every round and tournament name a
\* match row of the model can hold; any other string is its own lower-case.
LowerTable ==
    [x \in {ROUND_QF, ROUND_SF, ROUND_F, "FINAL",
            T_WORLD_MEN, T_WORLD_WOMEN, T_TAG_WORLD, T_NXT_MEN, T_NXT_WOMEN,
            T_UNDERGROUND_MEN, T_UNDERGROUND_WOMEN, T_HARDCORE_MEN,
            T_HARDCORE_WOMEN, T_RUMBLE_MEN, T_RUMBLE_WOMEN, T_ELIM_MEN,
            T_ELIM_WOMEN, T_ANDRE_MEN, T_CHYNA_WOMEN, T_DUSTY_MEN,
            T_MAE_WOMEN, T_US_MEN, T_US_WOMEN} |->
        CASE x = ROUND_QF -> "quarter final"
          [] x = ROUND_SF -> "semi final"
          [] x = ROUND_F -> "final"
          [] x = "FINAL" -> "final"
          [] x = T_WORLD_MEN -> "mens world championship"
          [] x = T_WORLD_WOMEN -> "womens world championship"
          [] x = T_TAG_WORLD -> "tag team world championship"
          [] x = T_NXT_MEN -> "mens nxt championship"
          [] x = T_NXT_WOMEN -> "womens nxt championship"
          [] x = T_UNDERGROUND_MEN -> "mens underground championship"
          [] x = T_UNDERGROUND_WOMEN -> "womens underground championship"
          [] x = T_HARDCORE_MEN -> "mens hardcore championship"
          [] x = T_HARDCORE_WOMEN -> "womens hardcore championship"
          [] x = T_RUMBLE_MEN -> "mens royal rumble"
          [] x = T_RUMBLE_WOMEN -> "womens royal rumble"
          [] x = T_ELIM_MEN -> "mens elimination chamber"
          [] x = T_ELIM_WOMEN -> "womens elimination chamber"
          [] x = T_ANDRE_MEN -> "mens andre battle royal"
          [] x = T_CHYNA_WOMEN -> "womens chyna battle royal"
          [] x = T_DUSTY_MEN -> "mens dusty rhodes gauntlet"
          [] x = T_MAE_WOMEN -> "womens mae young gauntlet"
          [] x = T_US_MEN -> "mens us championship"
          [] x = T_US_WOMEN -> "womens us championship"]

Lower(x) == (LowerTable @@ (x :> x))[x]

---------------------------------------------------------------------------
\* Reading the match history.  ms is a matches table, ps a match_participants
\* table; a match row is referred to by its id; NoRow is fetchone() = None.
NoRow == 0

\* dict side -> set of wrestler ids, for the sides that have a row.
_participants_by_side(ps, mid) ==
    [sd \in {p[2] : p \in {q \in ps : q[1] = mid}} |->
        {p[3] : p \in {q \in ps : q[1] = mid /\ q[2] = sd}}]

UnionAll(f) == UNION {f[x] : x \in DOMAIN f}

\* <<winners, losers>> of a match row (or of no row).
_winners_and_losers(ms, ps, mid) ==
    IF mid = NoRow \/ ms[mid].winner_side = NULL
    THEN <<{}, {}>>
    ELSE LET sides == _participants_by_side(ps, mid)
             winners == IF ms[mid].winner_side \in DOMAIN sides
                        THEN sides[ms[mid].winner_side] ELSE {}
         IN  <<winners, UnionAll(sides) \ winners>>

Max(S) == CHOOSE x \in S : \A y \in S : y <= x
Min(S) == CHOOSE x \in S : \A y \in S : x <= y

\* The greatest / least element of S, or dflt where S is empty (fetchone()
\* of an ORDER BY ... LIMIT 1 that has no row).
MaxOr(S, dflt) == IF S = {} THEN dflt ELSE Max(S)
MinOr(S, dflt) == IF S = {} THEN dflt ELSE Min(S)

\* The rows of one season, tournament and round (ORDER BY id ASC; every
\* caller only accumulates into sets, so the ids are returned as a set).
_round_matches(ms, s, T, R) ==
    {i \in DOMAIN ms : /\ ms[i].season = s
                       /\ Lower(ms[i].tournament) = Lower(T)
                       /\ Lower(ms[i].round) = Lower(R)}

\* The Final row of lowest id.
FinalMatchLowest(ms, s, T) == MinOr(_round_matches(ms, s, T, ROUND_F), NoRow)

\* The Final row of highest id (ORDER BY id DESC LIMIT 1), or NoRow.
_final_match(ms, s, T) == MaxOr(_round_matches(ms, s, T, ROUND_F), NoRow)

\* The row of highest id of the tournament, whatever its round, or NoRow.
_single_match(ms, s, T) ==
    MaxOr({i \in DOMAIN ms : /\ ms[i].season = s
                             /\ Lower(ms[i].tournament) = Lower(T)}, NoRow)

---------------------------------------------------------------------------
\* Label strings.
WorldBase(T) ==
    CASE T = T_WORLD_MEN -> "Mens World Championship"
      [] T = T_WORLD_WOMEN -> "Womens World Championship"
      [] T = T_TAG_WORLD -> "Tag Team World Championship"
      [] OTHER -> T

_label_for_world(T, kind) ==
    CASE kind = "champ" /\ T = T_WORLD_MEN -> "Mens World Champion"
      [] kind = "champ" /\ T = T_WORLD_WOMEN -> "Womens World Champion"
      [] kind = "champ" /\ T = T_TAG_WORLD -> "Tag Team World Champion"
      [] kind = "runner" /\ T = T_WORLD_MEN -> "Mens World Championship Runner-up"
      [] kind = "runner" /\ T = T_WORLD_WOMEN -> "Womens World Championship Runner-up"
      [] kind = "runner" /\ T = T_TAG_WORLD -> "Tag Team World Championship Runner-up"
      [] kind = "sf" /\ T = T_WORLD_MEN -> "Mens World Championship Semi-Finalist"
      [] kind = "sf" /\ T = T_WORLD_WOMEN -> "Womens World Championship Semi-Finalist"
      [] kind = "sf" /\ T = T_TAG_WORLD -> "Tag Team World Championship Semi-Finalist"
      [] kind = "qf" /\ T = T_WORLD_MEN -> "Mens World Championship Quarter-Finalist"
      [] kind = "qf" /\ T = T_WORLD_WOMEN -> "Womens World Championship Quarter-Finalist"
      [] kind = "qf" /\ T = T_TAG_WORLD -> "Tag Team World Championship Quarter-Finalist"
      [] OTHER -> WorldBase(T)

_label_for_nxt(T, kind) ==
    CASE kind = "champ" /\ T = T_NXT_MEN -> "Mens NXT Champion"
      [] kind = "champ" /\ T = T_NXT_WOMEN -> "Womens NXT Champion"
      [] kind = "runner" /\ T = T_NXT_MEN -> "Mens NXT Championship Runner-up"
      [] kind = "runner" /\ T = T_NXT_WOMEN -> "Womens NXT Championship Runner-up"
      [] kind = "sf" /\ T = T_NXT_MEN -> "Mens NXT Championship Semi-Finalist"
      [] kind = "sf" /\ T = T_NXT_WOMEN -> "Womens NXT Championship Semi-Finalist"
      [] OTHER -> T

_label_for_final_only(T, kind) ==
    CASE T = T_UNDERGROUND_MEN ->
            IF kind = "champ" THEN "Mens Underground Champion"
            ELSE "Mens Underground Championship Runner-up"
      [] T = T_UNDERGROUND_WOMEN ->
            IF kind = "champ" THEN "Womens Underground Champion"
            ELSE "Womens Underground Championship Runner-up"
      [] T = T_HARDCORE_MEN ->
            IF kind = "champ" THEN "Mens Hardcore Champion"
            ELSE "Mens Hardcore Championship Runner-up"
      [] T = T_HARDCORE_WOMEN ->
            IF kind = "champ" THEN "Womens Hardcore Champion"
            ELSE "Womens Hardcore Championship Runner-up"
      [] OTHER -> T

_ONE_OFF_WINNER_LABEL ==
    [T \in {T_RUMBLE_MEN, T_RUMBLE_WOMEN, T_ELIM_MEN, T_ELIM_WOMEN,
            T_ANDRE_MEN, T_CHYNA_WOMEN, T_DUSTY_MEN, T_MAE_WOMEN} |->
        CASE T = T_RUMBLE_MEN -> "Mens Royal Rumble Winner"
          [] T = T_RUMBLE_WOMEN -> "Womens Royal Rumble Winner"
          [] T = T_ELIM_MEN -> "Mens Elimination Chamber Winner"
          [] T = T_ELIM_WOMEN -> "Womens Elimination Chamber Winner"
          [] T = T_ANDRE_MEN -> "Mens Andre Battle Royal Winner"
          [] T = T_CHYNA_WOMEN -> "Womens Chyna Battle Royal Winner"
          [] T = T_DUSTY_MEN -> "Mens Dusty Rhodes Gauntlet Winner"
          [] T = T_MAE_WOMEN -> "Womens Mae Young Gauntlet Winner"]

US_WINNER_LABEL ==
    [T \in {T_US_MEN, T_US_WOMEN} |->
        IF T = T_US_MEN THEN "Mens US Championship Winner"
        ELSE "Womens US Championship Winner"]

---------------------------------------------------------------------------
\* The dry-run derivation.  A result is the set of <<wrestler id, label>>
\* pairs of the dict {wrestler_id: sorted distinct labels} the code returns.

\* The seasons processed: the one asked for, or (season = NULL, Python's
\* None) every season that has a match.
SeasonsOf(ms, season) ==
    IF season = NULL THEN {ms[i].season : i \in DOMAIN ms} ELSE {season}

Losers(ms, ps, rows) == UNION {_winners_and_losers(ms, ps, r)[2] : r \in rows}

\* A pass that labels every loser of a round, whatever round they reached.
WorldTagNoSuppress(ms, ps, s, T) ==
    LET WL == _winners_and_losers(ms, ps, _final_match(ms, s, T))
    IN  {<<w, _label_for_world(T, "champ")>> : w \in WL[1]}
        \cup {<<w, _label_for_world(T, "runner")>> : w \in WL[2]}
        \cup {<<w, _label_for_world(T, "sf")>> :
                 w \in Losers(ms, ps, _round_matches(ms, s, T, ROUND_SF))}
        \cup (IF T \in {T_WORLD_MEN, T_WORLD_WOMEN}
              THEN {<<w, _label_for_world(T, "qf")>> :
                       w \in Losers(ms, ps, _round_matches(ms, s, T, ROUND_QF))}
              ELSE {})

\* The loop body of dry_run_world_tag once the rows are read: WL is
\* <<winners, losers>> of the Final, sfs and qfs the Semi and Quarter Final
\* rows.
WorldTagRounds(ms, ps, T, WL, sfs, qfs) ==
    LET final_participants == WL[1] \cup WL[2]
        sf_participants ==
            UNION {UnionAll(_participants_by_side(ps, sf)) : sf \in sfs}
        higher == final_participants \cup sf_participants
    IN  {<<w, _label_for_world(T, "champ")>> : w \in WL[1]}
        \cup {<<w, _label_for_world(T, "runner")>> : w \in WL[2]}
        \cup {<<w, _label_for_world(T, "sf")>> :
                 w \in Losers(ms, ps, sfs) \ final_participants}
        \cup (IF T \in {T_WORLD_MEN, T_WORLD_WOMEN}
              THEN {<<w, _label_for_world(T, "qf")>> :
                       w \in Losers(ms, ps, qfs) \ higher}
              ELSE {})

\* A pass that computes no tier for a season without a Final.
WorldTagNeedsFinal(ms, ps, s, T) ==
    IF _final_match(ms, s, T) = NoRow THEN {}
    ELSE WorldTagRounds(ms, ps, T,
                        _winners_and_losers(ms, ps, _final_match(ms, s, T)),
                        _round_matches(ms, s, T, ROUND_SF),
                        _round_matches(ms, s, T, ROUND_QF))

\* One pass of the loop body of dry_run_world_tag, for season s, tournament T.
WorldTagOne(ms, ps, s, T) ==
    WorldTagRounds(ms, ps, T,
                   _winners_and_losers(ms, ps, _final_match(ms, s, T)),
                   _round_matches(ms, s, T, ROUND_SF),
                   _round_matches(ms, s, T, ROUND_QF))

dry_run_world_tag(ms, ps, season) ==
    UNION {WorldTagOne(ms, ps, s, T) :
              s \in SeasonsOf(ms, season),
              T \in {T_WORLD_MEN, T_WORLD_WOMEN, T_TAG_WORLD}}

\* Step 2 of dry_run_all_except_us: NXT, finals and losing semi-finalists.
NxtRounds(ms, ps, T, WL, sfs) ==
    LET finalists == WL[1] \cup WL[2]
    IN  {<<w, _label_for_nxt(T, "champ")>> : w \in WL[1]}
        \cup {<<w, _label_for_nxt(T, "runner")>> : w \in WL[2]}
        \cup {<<w, _label_for_nxt(T, "sf")>> :
                 w \in Losers(ms, ps, sfs) \ finalists}

NxtOne(ms, ps, s, T) ==
    NxtRounds(ms, ps, T, _winners_and_losers(ms, ps, _final_match(ms, s, T)),
              _round_matches(ms, s, T, ROUND_SF))

\* The semi-finalist label a finals-only championship would carry.
FinalOnlySemiLabel(T) ==
    CASE T = T_UNDERGROUND_MEN -> "Mens Underground Championship Semi-Finalist"
      [] T = T_UNDERGROUND_WOMEN -> "Womens Underground Championship Semi-Finalist"
      [] T = T_HARDCORE_MEN -> "Mens Hardcore Championship Semi-Finalist"
      [] OTHER -> "Womens Hardcore Championship Semi-Finalist"

\* A finals-only pass that labels the losers of the Semi Finals too.
FinalOnlyWithSemis(ms, ps, s, T) ==
    {<<w, _label_for_final_only(T, "champ")>> :
        w \in _winners_and_losers(ms, ps, _final_match(ms, s, T))[1]}
    \cup {<<w, _label_for_final_only(T, "runner")>> :
        w \in _winners_and_losers(ms, ps, _final_match(ms, s, T))[2]}
    \cup {<<w, FinalOnlySemiLabel(T)>> :
        w \in Losers(ms, ps, _round_matches(ms, s, T, ROUND_SF))}

\* Step 3: Underground and Hardcore, finals only.
FinalOnlyLabels(T, WL) ==
    {<<w, _label_for_final_only(T, "champ")>> : w \in WL[1]}
    \cup {<<w, _label_for_final_only(T, "runner")>> : w \in WL[2]}

FinalOnlyOne(ms, ps, s, T) ==
    FinalOnlyLabels(T, _winners_and_losers(ms, ps, _final_match(ms, s, T)))

\* A one-off pass that labels every wrestler of the single match.
OneOffEverySide(ms, ps, s, T) ==
    {<<w, _ONE_OFF_WINNER_LABEL[T]>> :
        w \in _winners_and_losers(ms, ps, _single_match(ms, s, T))[1]
              \cup _winners_and_losers(ms, ps, _single_match(ms, s, T))[2]}

\* Step 4: one-off tournaments, the winners of the single match.
OneOffOne(ms, ps, s, T) ==
    {<<w, _ONE_OFF_WINNER_LABEL[T]>> :
        w \in _winners_and_losers(ms, ps, _single_match(ms, s, T))[1]}

dry_run_all_except_us(ms, ps, season) ==
    dry_run_world_tag(ms, ps, season)
    \cup UNION {NxtOne(ms, ps, s, T) :
                   s \in SeasonsOf(ms, season), T \in {T_NXT_MEN, T_NXT_WOMEN}}
    \cup UNION {FinalOnlyOne(ms, ps, s, T) :
                   s \in SeasonsOf(ms, season),
                   T \in {T_UNDERGROUND_MEN, T_UNDERGROUND_WOMEN,
                          T_HARDCORE_MEN, T_HARDCORE_WOMEN}}
    \cup UNION {OneOffOne(ms, ps, s, T) :
                   s \in SeasonsOf(ms, season),
                   T \in DOMAIN _ONE_OFF_WINNER_LABEL}

\* Winners of every US title match of the season with an empty round.
_us_winners_for_season(ms, ps, s, T) ==
    UNION {_winners_and_losers(ms, ps, r)[1] : r \in _round_matches(ms, s, T, "")}

dry_run_all(ms, ps, season) ==
    dry_run_all_except_us(ms, ps, season)
    \cup UNION {{<<w, US_WINNER_LABEL[T]>> : w \in _us_winners_for_season(ms, ps, s, T)} :
                   s \in SeasonsOf(ms, season), T \in {T_US_MEN, T_US_WOMEN}}

---------------------------------------------------------------------------
\* highlight_types: lookup and lazy registration of labels.

\* The rows seed_highlight_types inserts, in its order: <<code, label>>.
SeedRows ==
    <<<<"mens_world_champion", "Mens World Champion">>,
      <<"mens_world_runner_up", "Mens World Championship Runner-up">>,
      <<"mens_world_sf", "Mens World Championship Semi-Finalist">>,
      <<"mens_world_qf", "Mens World Championship Quarter-Finalist">>,
      <<"womens_world_champion", "Womens World Champion">>,
      <<"womens_world_runner_up", "Womens World Championship Runner-up">>,
      <<"womens_world_sf", "Womens World Championship Semi-Finalist">>,
      <<"womens_world_qf", "Womens World Championship Quarter-Finalist">>,
      <<"tag_world_champion", "Tag Team World Champion">>,
      <<"tag_world_runner_up", "Tag Team World Championship Runner-up">>,
      <<"tag_world_sf", "Tag Team World Championship Semi-Finalist">>,
      <<"mens_nxt_champion", "Mens NXT Champion">>,
      <<"mens_nxt_runner_up", "Mens NXT Championship Runner-up">>,
      <<"mens_nxt_sf", "Mens NXT Championship Semi-Finalist">>,
      <<"womens_nxt_champion", "Womens NXT Champion">>,
      <<"womens_nxt_runner_up", "Womens NXT Championship Runner-up">>,
      <<"womens_nxt_sf", "Womens NXT Championship Semi-Finalist">>,
      <<"mens_underground_champion", "Mens Underground Champion">>,
      <<"mens_underground_runner_up", "Mens Underground Championship Runner-up">>,
      <<"womens_underground_champion", "Womens Underground Champion">>,
      <<"womens_underground_runner_up", "Womens Underground Championship Runner-up">>,
      <<"mens_hardcore_champion", "Mens Hardcore Champion">>,
      <<"mens_hardcore_runner_up", "Mens Hardcore Championship Runner-up">>,
      <<"womens_hardcore_champion", "Womens Hardcore Champion">>,
      <<"womens_hardcore_runner_up", "Womens Hardcore Championship Runner-up">>,
      <<"mens_rumble_winner", "Mens Royal Rumble Winner">>,
      <<"womens_rumble_winner", "Womens Royal Rumble Winner">>,
      <<"mens_us_championship_winner", "Mens US Championship Winner">>,
      <<"womens_us_championship_winner", "Womens US Championship Winner">>,
      <<"mens_elimination_chamber_winner", "Mens Elimination Chamber Winner">>,
      <<"womens_elimination_chamber_winner", "Womens Elimination Chamber Winner">>,
      <<"mens_andre_battle_royal_winner", "Mens Andre Battle Royal Winner">>,
      <<"womens_chyna_battle_royal_winner", "Womens Chyna Battle Royal Winner">>,
      <<"mens_dusty_rhodes_gauntlet_winner", "Mens Dusty Rhodes Gauntlet Winner">>,
      <<"womens_mae_young_gauntlet_winner", "Womens Mae Young Gauntlet Winner">>>>

\* label.lower().replace(" ", "_"), the code _label_id gives a label it registers.
LazyCodeTable ==
    [l \in {SeedRows[i][2] : i \in DOMAIN SeedRows} |->
        CASE l = "Mens World Champion" -> "mens_world_champion"
          [] l = "Mens World Championship Runner-up" -> "mens_world_championship_runner-up"
          [] l = "Mens World Championship Semi-Finalist" -> "mens_world_championship_semi-finalist"
          [] l = "Mens World Championship Quarter-Finalist" -> "mens_world_championship_quarter-finalist"
          [] l = "Womens World Champion" -> "womens_world_champion"
          [] l = "Womens World Championship Runner-up" -> "womens_world_championship_runner-up"
          [] l = "Womens World Championship Semi-Finalist" -> "womens_world_championship_semi-finalist"
          [] l = "Womens World Championship Quarter-Finalist" -> "womens_world_championship_quarter-finalist"
          [] l = "Tag Team World Champion" -> "tag_team_world_champion"
          [] l = "Tag Team World Championship Runner-up" -> "tag_team_world_championship_runner-up"
          [] l = "Tag Team World Championship Semi-Finalist" -> "tag_team_world_championship_semi-finalist"
          [] l = "Mens NXT Champion" -> "mens_nxt_champion"
          [] l = "Mens NXT Championship Runner-up" -> "mens_nxt_championship_runner-up"
          [] l = "Mens NXT Championship Semi-Finalist" -> "mens_nxt_championship_semi-finalist"
          [] l = "Womens NXT Champion" -> "womens_nxt_champion"
          [] l = "Womens NXT Championship Runner-up" -> "womens_nxt_championship_runner-up"
          [] l = "Womens NXT Championship Semi-Finalist" -> "womens_nxt_championship_semi-finalist"
          [] l = "Mens Underground Champion" -> "mens_underground_champion"
          [] l = "Mens Underground Championship Runner-up" -> "mens_underground_championship_runner-up"
          [] l = "Womens Underground Champion" -> "womens_underground_champion"
          [] l = "Womens Underground Championship Runner-up" -> "womens_underground_championship_runner-up"
          [] l = "Mens Hardcore Champion" -> "mens_hardcore_champion"
          [] l = "Mens Hardcore Championship Runner-up" -> "mens_hardcore_championship_runner-up"
          [] l = "Womens Hardcore Champion" -> "womens_hardcore_champion"
          [] l = "Womens Hardcore Championship Runner-up" -> "womens_hardcore_championship_runner-up"
          [] l = "Mens Royal Rumble Winner" -> "mens_royal_rumble_winner"
          [] l = "Womens Royal Rumble Winner" -> "womens_royal_rumble_winner"
          [] l = "Mens US Championship Winner" -> "mens_us_championship_winner"
          [] l = "Womens US Championship Winner" -> "womens_us_championship_winner"
          [] l = "Mens Elimination Chamber Winner" -> "mens_elimination_chamber_winner"
          [] l = "Womens Elimination Chamber Winner" -> "womens_elimination_chamber_winner"
          [] l = "Mens Andre Battle Royal Winner" -> "mens_andre_battle_royal_winner"
          [] l = "Womens Chyna Battle Royal Winner" -> "womens_chyna_battle_royal_winner"
          [] l = "Mens Dusty Rhodes Gauntlet Winner" -> "mens_dusty_rhodes_gauntlet_winner"
          [] l = "Womens Mae Young Gauntlet Winner" -> "womens_mae_young_gauntlet_winner"]

LazyCode(label) == (LazyCodeTable @@ (label :> label))[label]

\* SELECT id FROM highlight_types WHERE label = ? (fetchone): the row of
\* lowest id, which is the one a scan of the table meets first, or NoRow.
TypeIdOf(types, label) ==
    MinOr({i \in DOMAIN types : types[i][2] = label}, NoRow)

\* INSERT OR IGNORE INTO highlight_types(code, label): code is UNIQUE.
InsertTypeOrIgnore(types, code, label) ==
    IF \E i \in DOMAIN types : types[i][1] = code
    THEN types ELSE Append(types, <<code, label>>)

\* _label_id: the id of a label, which is registered when it is missing;
\* -1 when the registration was ignored.  Returns the table too.
LabelIdBroken(types, label) ==
    LET t2 == Append(types, <<LazyCode(label), label>>)
    IN  [types |-> t2, id |-> Len(t2)]

\* A lookup that registers nothing: -1 for a label that is not on file.
LabelIdNoRegister(types, label) ==
    [types |-> types,
     id |-> IF TypeIdOf(types, label) # NoRow THEN TypeIdOf(types, label) ELSE -1]

\* The second SELECT of _label_id, on the table t2 the INSERT OR IGNORE left.
Registered(t2, label) ==
    [types |-> t2, id |-> IF TypeIdOf(t2, label) # NoRow THEN TypeIdOf(t2, label) ELSE -1]

_label_id(types, label) ==
    IF TypeIdOf(types, label) # NoRow
    THEN [types |-> types, id |-> TypeIdOf(types, label)]
    ELSE Registered(InsertTypeOrIgnore(types, LazyCode(label), label), label)

\* seed_highlight_types: INSERT OR IGNORE of every seed row, in order.
RECURSIVE SeedFrom(_, _)
SeedFrom(types, i) ==
    IF i > Len(SeedRows) THEN types
    ELSE SeedFrom(InsertTypeOrIgnore(types, SeedRows[i][1], SeedRows[i][2]), i + 1)

seed_highlight_types(types) == SeedFrom(types, 1)

---------------------------------------------------------------------------
\* wrestler_highlights / team_highlights rows are <<competitor id,
\* highlight id, season>>; the schema makes the triple the PRIMARY KEY.

\* INSERT OR IGNORE under the PRIMARY KEY of ensure_highlights_schema.
InsertNoKey(table, row) == table (+) SetToBag({row})

InsertOrIgnore(table, row) ==
    IF BagIn(row, table) THEN table ELSE table (+) SetToBag({row})

\* DELETE FROM ... WHERE the predicate holds: the rows kept are `keep`.
Restrict(table, keep) == [r \in keep |-> table[r]]

\* A DELETE without its WHERE clause.
DeleteEverySeason(table, season) == Restrict(table, {})

DeleteSeason(table, season) ==
    Restrict(table, {r \in DOMAIN table : r[3] # season})

\* The rows of a season, and their number (duplicates counted).
SeasonRows(table, season) ==
    Restrict(table, {r \in DOMAIN table : r[3] = season})

\* The dict iteration of the persist loop: wrestler by wrestler, each one's
\* labels in order.  The order only decides which id a label gets that is
\* registered on the way; labels are ranked by their place in SeedRows.
LabelRank(label) ==
    MinOr({i \in DOMAIN SeedRows : SeedRows[i][2] = label}, Len(SeedRows) + 1)

PairBefore(a, b) ==
    \/ a[1] < b[1]
    \/ a[1] = b[1] /\ LabelRank(a[2]) <= LabelRank(b[2])

RECURSIVE Items(_)
Items(pairs) ==
    IF pairs = {} THEN <<>>
    ELSE LET a == CHOOSE x \in pairs : \A y \in pairs : PairBefore(x, y)
         IN  <<a>> \o Items(pairs \ {a})

\* The insert loop of admin_highlights_persist_all (the same loop stands in
\* admin_highlights_persist_incremental): per (wid, label), look the label
\* up and INSERT OR IGNORE the row, counting it.
RECURSIVE PersistLoop(_, _, _, _, _)
RECURSIVE PersistItem(_, _, _, _, _)

\* One pass of the loop, r being what _label_id returned for the label.
PersistItem(r, table, n, todo, season) ==
    IF r.id # -1
    THEN PersistLoop(r.types,
                     InsertOrIgnore(table, <<Head(todo)[1], r.id, season>>),
                     n + 1, Tail(todo), season)
    ELSE PersistLoop(r.types, table, n, Tail(todo), season)

PersistLoop(types, table, n, todo, season) ==
    IF todo = <<>>
    THEN [types |-> types, wh |-> table, inserted |-> n]
    ELSE PersistItem(_label_id(types, Head(todo)[2]), table, n, todo, season)

---------------------------------------------------------------------------
\* Team resolution and the team highlights of Tag Team World.
NoTeam == 0

\* The teams whose member rows are exactly the side's wrestlers: the groups
\* the HAVING clause keeps.
ExactTeams(tm, wrestler_ids) ==
    {t \in {m[1] : m \in tm} :
        /\ Cardinality({w \in wrestler_ids : <<t, w>> \in tm})
              = Cardinality(wrestler_ids)
        /\ Cardinality({m \in tm : m[1] = t}) = Cardinality(wrestler_ids)}

\* A team that only has to hold every wrestler of the side.
SideToTeamLoose(tm, wrestler_ids) ==
    LET c == {t \in {m[1] : m \in tm} : \A w \in wrestler_ids : <<t, w>> \in tm}
    IN  IF wrestler_ids = {} \/ c = {} THEN NoTeam ELSE Min(c)

\* _side_to_team_id: LIMIT 1 of the groups, which GROUP BY team_id yields in
\* ascending team_id.
_side_to_team_id(tm, wrestler_ids) ==
    IF wrestler_ids = {} THEN NoTeam ELSE MinOr(ExactTeams(tm, wrestler_ids), NoTeam)

\* The INSERT OR IGNORE statements recompute_team_tag_highlights executes,
\* one record per statement (a statement is identified by the match, the
\* side and the label it is executed for).

\* The sides of the Final row, none where there is no Final.
FinalSides(ps, fin) == IF fin = NoRow THEN <<>> ELSE _participants_by_side(ps, fin)

\* finals_team_ids: the team of every side of the Final that resolves.
FinalsTeamIds(tm, fsides) ==
    {_side_to_team_id(tm, fsides[sd]) : sd \in DOMAIN fsides} \ {NoTeam}

\* The champion and runner-up statements of a Final row with a winner side.
FinalInserts(ms, tm, fin, fsides, hid_champ, hid_runner) ==
    IF fin = NoRow \/ ms[fin].winner_side = NULL THEN {}
    ELSE {[mid |-> fin, side |-> ms[fin].winner_side, tid |-> t, hid |-> hid_champ] :
             t \in {_side_to_team_id(tm,
                        IF ms[fin].winner_side \in DOMAIN fsides
                        THEN fsides[ms[fin].winner_side] ELSE {})} \ {NoTeam}}
         \cup
         {[mid |-> fin, side |-> sd,
           tid |-> _side_to_team_id(tm, fsides[sd]), hid |-> hid_runner] :
             sd \in {x \in DOMAIN fsides :
                        /\ x # ms[fin].winner_side
                        /\ _side_to_team_id(tm, fsides[x]) # NoTeam}}

\* Semi-finalist statements that ignore who was in the Final.
SemiInsertsAll(ms, tm, sf, sides, finals_team_ids, hid_sf) ==
    {[mid |-> sf, side |-> sd,
      tid |-> _side_to_team_id(tm, sides[sd]), hid |-> hid_sf] :
        sd \in {x \in DOMAIN sides :
                   /\ x # ms[sf].winner_side
                   /\ _side_to_team_id(tm, sides[x]) # NoTeam}}

\* The semi-finalist statements of one Semi Final row with a winner side.
SemiInserts(ms, tm, sf, sides, finals_team_ids, hid_sf) ==
    {[mid |-> sf, side |-> sd,
      tid |-> _side_to_team_id(tm, sides[sd]), hid |-> hid_sf] :
        sd \in {x \in DOMAIN sides :
                   /\ x # ms[sf].winner_side
                   /\ _side_to_team_id(tm, sides[x]) # NoTeam
                   /\ _side_to_team_id(tm, sides[x]) \notin finals_team_ids}}

\* The statements, fin being the Final row and sfs the Semi Final rows.
TeamInsertsOf(ms, ps, tm, fin, sfs, hid_champ, hid_runner, hid_sf) ==
    FinalInserts(ms, tm, fin, FinalSides(ps, fin), hid_champ, hid_runner)
    \cup UNION {SemiInserts(ms, tm, sf, _participants_by_side(ps, sf),
                            FinalsTeamIds(tm, FinalSides(ps, fin)), hid_sf) :
                  sf \in {x \in sfs : ms[x].winner_side # NULL}}

TeamInserts(ms, ps, tm, season, hid_champ, hid_runner, hid_sf) ==
    TeamInsertsOf(ms, ps, tm, _final_match(ms, season, T_TAG_WORLD),
                  _round_matches(ms, season, T_TAG_WORLD, ROUND_SF),
                  hid_champ, hid_runner, hid_sf)

RECURSIVE InsertAll(_, _, _)
InsertAll(table, stmts, season) ==
    IF stmts = {} THEN table
    ELSE LET a == CHOOSE x \in stmts : TRUE
         IN  InsertAll(InsertOrIgnore(table, <<a.tid, a.hid, season>>),
                       stmts \ {a}, season)

\* The DELETE of the season's slice of the three labels and the inserts.
TeamSlice(types, table, season, hids, stmts) ==
    [types |-> types,
     th |-> InsertAll(Restrict(table, {x \in DOMAIN table :
                                          ~(x[3] = season /\ x[2] \in hids)}),
                      stmts, season),
     inserted |-> Cardinality(stmts)]

\* recompute_team_tag_highlights, after its ensure_highlights_schema call:
\* the three label ids, the DELETE of the season's slice, the inserts.
recompute_team_tag_highlights(types, table, ms, ps, tm, season) ==
    LET c == _label_id(types, "Tag Team World Champion")
        r == _label_id(c.types, "Tag Team World Championship Runner-up")
        f == _label_id(r.types, "Tag Team World Championship Semi-Finalist")
    IN  TeamSlice(f.types, table, season, {c.id, r.id, f.id},
                  TeamInserts(ms, ps, tm, season, c.id, r.id, f.id))

\* _record_highlight_run: the row appended to highlight_runs.
\* A position read without the COALESCE(..., -1) of the SELECT.
WatermarkNoCoalesce(ms, season) ==
    LET rows == {i \in DOMAIN ms : ms[i].season = season}
    IN  [season |-> season,
         last_day |-> MaxOr({ms[i].day_index : i \in rows} \ {NULL}, NULL),
         last_order |-> MaxOr({ms[i].order_in_day : i \in rows} \ {NULL}, NULL),
         last_match_id |-> MaxOr(rows, NULL)]

WatermarkOf(ms, season) ==
    LET rows == {i \in DOMAIN ms : ms[i].season = season}
    IN  [season |-> season,
         last_day |-> MaxOr({ms[i].day_index : i \in rows} \ {NULL}, -1),
         last_order |-> MaxOr({ms[i].order_in_day : i \in rows} \ {NULL}, -1),
         last_match_id |-> MaxOr(rows, NULL)]

_record_highlight_run(runs, ms, season) == Append(runs, WatermarkOf(ms, season))

\* A position read without the COALESCE(..., -1) of the SELECT.
CurrentPositionZero(ms, season) ==
    LET rows == {i \in DOMAIN ms : ms[i].season = season}
    IN  [d |-> MaxOr({ms[i].day_index : i \in rows} \ {NULL}, NULL),
         o |-> MaxOr({ms[i].order_in_day : i \in rows} \ {NULL}, NULL),
         mid |-> MaxOr(rows, NULL)]

\* The position the incremental handler reads as `cur`: its own SELECT.
CurrentPosition(ms, season) ==
    LET rows == {i \in DOMAIN ms : ms[i].season = season}
    IN  [d |-> MaxOr({ms[i].day_index : i \in rows} \ {NULL}, -1),
         o |-> MaxOr({ms[i].order_in_day : i \in rows} \ {NULL}, -1),
         mid |-> MaxOr(rows, NULL)]

\* Python's `x or -1` on a nullable integer.
OrMinus1(x) == IF x = NULL THEN -1 ELSE x

\* The newest highlight_runs row of the season (ORDER BY id DESC LIMIT 1).
LatestRun(runs, season) ==
    LET ids == {i \in DOMAIN runs : runs[i].season = season}
    IN  IF ids = {} THEN NoRow ELSE Max(ids)

\* A test that compares the day of the position only.
UnchangedDayOnly(runs, ms, season) ==
    /\ LatestRun(runs, season) # NoRow
    /\ runs[LatestRun(runs, season)].last_day = CurrentPosition(ms, season).d

\* The test of admin_highlights_persist_incremental that makes it a no-op.
Unchanged(runs, ms, season) ==
    LET wm == LatestRun(runs, season)
        cur == CurrentPosition(ms, season)
    IN  /\ wm # NoRow
        /\ runs[wm].last_day = cur.d
        /\ runs[wm].last_order = cur.o
        /\ OrMinus1(runs[wm].last_match_id) = OrMinus1(cur.mid)

---------------------------------------------------------------------------
\* State of the connections.
NoTxn == <<>>
NoReq == [op |-> "none", season |-> NULL]
NoResponse == [kind |-> "none", season |-> NULL, added |-> 0, results |-> {}]
NoHist == <<>>

Redirect(kind, season, added) ==
    [kind |-> kind, season |-> season, added |-> added, results |-> {}]

Committed ==
    [types |-> highlight_types, wh |-> wrestler_highlights,
     th |-> team_highlights, runs |-> highlight_runs]

\* The stored achievements of a season: its rows in the two tables.
Stored(wh, th, season) ==
    [wh |-> SeasonRows(wh, season), th |-> SeasonRows(th, season)]

\* Whether a season has no stored achievement at all.
SeasonEmpty(wh, th, season) ==
    BagToSet(SeasonRows(wh, season)) = {} /\ BagToSet(SeasonRows(th, season)) = {}

\* The <<wrestler id, label>> pairs the season's wrestler_highlights rows
\* stand for, read through highlight_types.
StoredLabels(types, wh, season) ==
    {<<r[1], types[r[2]][2]>> :
        r \in {x \in BagToSet(SeasonRows(wh, season)) : x[2] \in DOMAIN types}}

\* The match history as it was when it held k matches.
MatchesAt(k) == SubSeq(matches, 1, k)
ParticipantsAt(k) == {p \in match_participants : p[1] <= k}

Init ==
    /\ matches = <<>>
    /\ match_participants = {}
    /\ tag_team_members = {}
    /\ highlight_types = <<>>
    /\ wrestler_highlights = EmptyBag
    /\ team_highlights = EmptyBag
    /\ highlight_runs = <<>>
    /\ lock = NoConn
    /\ txn = NoTxn
    /\ pc = [c \in Conns |-> "idle"]
    /\ req = [c \in Conns |-> NoReq]
    /\ results = [c \in Conns |-> {}]
    /\ inserted = [c \in Conns |-> 0]
    /\ response = [c \in Conns |-> NoResponse]
    /\ hist = [ver |-> 0,
               run |-> [c \in Conns |-> NoHist],
               full |-> [s \in Seasons |-> NoHist],
               incr |-> [s \in Seasons |-> 0],
               dry |-> -1,
               ov |-> NoHist,
               ab |-> NoHist,
               done |-> NoHist]

---------------------------------------------------------------------------
\* The writers of the match history and of the roster.

\* import_all with one match row m and its participant rows: the rows of a
\* file are validated, then inserted and committed as one transaction.
ImportValid(m) ==
    /\ m.result \in {"win", "draw", "nc"}
    /\ m.result = "win" => m.winner_side # NULL
    /\ m.result = "win" => m.winner_side \in DOMAIN m.sides
    /\ m.day >= 1

import_all(m) ==
    /\ ImportValid(m)
    /\ lock = NoConn
    /\ matches' = Append(matches,
                         [season |-> m.season, tournament |-> m.tournament,
                          round |-> m.round, winner_side |-> m.winner_side,
                          result |-> m.result, day_index |-> m.day,
                          order_in_day |-> NULL])
    /\ match_participants' =
           match_participants \cup
           UNION {{<<Len(matches) + 1, sd, w>> : w \in m.sides[sd]} :
                     sd \in DOMAIN m.sides}
    /\ hist' = [hist EXCEPT !.ver = @ + 1,
                            !.full = [s \in Seasons |-> NoHist],
                            !.incr = [s \in Seasons |-> 0]]
    /\ UNCHANGED <<tag_team_members, hlvars, lock, txn, connvars>>

\* upsert_team of import_teams_csv for a team name not yet on file: a new
\* tag_teams row (the next id) with its member rows.
TeamIds == {m[1] : m \in tag_team_members}

upsert_team(members) ==
    /\ Cardinality(members) >= 2
    /\ lock = NoConn
    /\ tag_team_members' =
           tag_team_members \cup {<<MaxOr(TeamIds, 0) + 1, w>> : w \in members}
    /\ hist' = [hist EXCEPT !.ver = @ + 1,
                            !.full = [s \in Seasons |-> NoHist]]
    /\ UNCHANGED <<matches, match_participants, hlvars, lock, txn, connvars>>

\* match_edit_submit with only the winner field of the form filled in, or
\* left empty: winner_side becomes 1, 2 or NULL, whatever the row's result
\* and sides are; the other columns keep their values.
match_edit_submit(mid, winner_raw) ==
    /\ mid \in DOMAIN matches
    /\ lock = NoConn
    /\ matches' = [matches EXCEPT ![mid].winner_side =
                       IF winner_raw \in {1, 2} THEN winner_raw ELSE NULL]
    /\ hist' = [hist EXCEPT !.ver = @ + 1,
                            !.full = [s \in Seasons |-> NoHist]]
    /\ UNCHANGED <<match_participants, tag_team_members, hlvars, lock, txn,
                   connvars>>

\* teams_edit_submit for a team on file with a valid name and status: the
\* team's member rows are deleted and the submitted ones inserted; fewer
\* than two members is refused with the form.
teams_edit_submit(tid, members) ==
    /\ tid \in TeamIds
    /\ Cardinality(members) >= 2
    /\ lock = NoConn
    /\ tag_team_members' =
           {m \in tag_team_members : m[1] # tid} \cup {<<tid, w>> : w \in members}
    /\ hist' = [hist EXCEPT !.ver = @ + 1,
                            !.full = [s \in Seasons |-> NoHist]]
    /\ UNCHANGED <<matches, match_participants, hlvars, lock, txn, connvars>>

\* admin_seed_highlights (a second request finds every code on file).
admin_seed_highlights ==
    /\ lock = NoConn
    /\ highlight_types # seed_highlight_types(highlight_types)
    /\ highlight_types' = seed_highlight_types(highlight_types)
    /\ UNCHANGED <<dbvars, wrestler_highlights, team_highlights, highlight_runs,
                   lock, txn, connvars, hist>>

\* A dry run that seeds highlight_types on its way.
DryRunSeeding(c, season) ==
    /\ pc[c] = "idle"
    /\ response' = [response EXCEPT ![c] =
                       [kind |-> "dry_run", season |-> season, added |-> 0,
                        results |-> dry_run_all(matches, match_participants, season)]]
    /\ highlight_types' = seed_highlight_types(highlight_types)
    /\ hist' = [hist EXCEPT !.dry = hist.ver]
    /\ UNCHANGED <<dbvars, wrestler_highlights, team_highlights, highlight_runs,
                   lock, txn, pc, req, results, inserted>>

\* A dry run that clears match_participants once it has read the labels.
DryRunClearing(c, season) ==
    /\ pc[c] = "idle"
    /\ response' = [response EXCEPT ![c] =
                       [kind |-> "dry_run", season |-> season, added |-> 0,
                        results |-> dry_run_all(matches, match_participants, season)]]
    /\ match_participants' = {}
    /\ hist' = [hist EXCEPT !.dry = hist.ver]
    /\ UNCHANGED <<matches, tag_team_members, hlvars, lock, txn, pc, req,
                   results, inserted>>

\* admin_highlights_dry_run on connection c: reads only.  season = NULL is
\* the request without a season, which covers every season.
admin_highlights_dry_run(c, season) ==
    /\ pc[c] = "idle"
    /\ response' = [response EXCEPT ![c] =
                       [kind |-> "dry_run", season |-> season, added |-> 0,
                        results |-> dry_run_all(matches, match_participants, season)]]
    /\ hist' = [hist EXCEPT !.dry = hist.ver]
    /\ UNCHANGED <<dbvars, hlvars, lock, txn, pc, req, results, inserted>>

---------------------------------------------------------------------------
\* admin_highlights_persist_all and admin_highlights_persist_incremental on
\* connection c.  A handler is cut where its connection takes SQLite's write
\* lock or commits; the SELECTs of one cut read one committed state.

\* What the history notes when a run starts.
RunNote(season) ==
    [season |-> season, ver |-> hist.ver,
     pre |-> Stored(wrestler_highlights, team_highlights, season),
     runs |-> Len(highlight_runs),
     zero |-> FALSE]

\* persist_all up to the dict `results`.
PersistAllStart(c, season) ==
    /\ pc[c] = "idle"
    /\ Len(highlight_runs) < MaxRuns
    /\ pc' = [pc EXCEPT ![c] = "computed"]
    /\ req' = [req EXCEPT ![c] = [op |-> "all", season |-> season]]
    /\ results' = [results EXCEPT ![c] = dry_run_all(matches, match_participants, season)]
    /\ inserted' = [inserted EXCEPT ![c] = 0]
    /\ response' = [response EXCEPT ![c] = NoResponse]
    /\ hist' = [hist EXCEPT !.run[c] = RunNote(season), !.ab = NoHist,
                            !.done = NoHist]
    /\ UNCHANGED <<dbvars, hlvars, lock, txn>>

\* persist_incremental up to the dict `results`, or its whole no-op.
PersistIncrStart(c, season) ==
    /\ pc[c] = "idle"
    /\ IF Unchanged(highlight_runs, matches, season)
       THEN /\ response' = [response EXCEPT ![c] = Redirect("unchanged", season, 0)]
            /\ hist' = [hist EXCEPT !.incr[season] = IF @ = 0 THEN 1 ELSE 2,
                                    !.ab = NoHist, !.done = NoHist]
            /\ UNCHANGED <<pc, req, results, inserted>>
       ELSE /\ Len(highlight_runs) < MaxRuns
            /\ pc' = [pc EXCEPT ![c] = "computed"]
            /\ req' = [req EXCEPT ![c] = [op |-> "incr", season |-> season]]
            /\ results' = [results EXCEPT ![c] =
                              dry_run_all(matches, match_participants, season)]
            /\ inserted' = [inserted EXCEPT ![c] = 0]
            /\ response' = [response EXCEPT ![c] = NoResponse]
            /\ hist' = [hist EXCEPT !.run[c] = RunNote(season),
                                    !.ab = NoHist, !.done = NoHist]
    /\ UNCHANGED <<dbvars, hlvars, lock, txn>>

\* The open transaction and the counter once the insert loop returned r.
WrestlerTxn(c, r) ==
    /\ txn' = [Committed EXCEPT !.types = r.types, !.wh = r.wh]
    /\ inserted' = [inserted EXCEPT ![c] = r.inserted]

\* DELETE FROM wrestler_highlights WHERE season = ? and the insert loop: the
\* DELETE opens the transaction and takes the write lock.
WriteWrestlers(c) ==
    /\ pc[c] = "computed"
    /\ lock = NoConn
    /\ WrestlerTxn(c, PersistLoop(highlight_types,
                               DeleteSeason(wrestler_highlights, req[c].season), 0,
                               Items(results[c]), req[c].season))
    /\ lock' = c
    /\ pc' = [pc EXCEPT ![c] = "wrestlers"]
    /\ UNCHANGED <<dbvars, hlvars, req, results, response, hist>>

\* The tables a COMMIT of the open transaction leaves committed.
CommitTxn ==
    /\ highlight_types' = txn.types
    /\ wrestler_highlights' = txn.wh
    /\ team_highlights' = txn.th
    /\ highlight_runs' = txn.runs
    /\ lock' = NoConn
    /\ txn' = NoTxn

\* recompute_team_tag_highlights begins with ensure_highlights_schema, whose
\* last statement is conn.commit(): the open transaction is committed, and
\* every other connection reads the tables it leaves.
EnsureSchemaCommit(c) ==
    /\ pc[c] = "wrestlers"
    /\ lock = c
    /\ CommitTxn
    /\ pc' = [pc EXCEPT ![c] = "between"]
    /\ hist' = [hist EXCEPT !.run[c].zero =
                   @ \/ SeasonEmpty(txn.wh, txn.th, req[c].season)]
    /\ UNCHANGED <<dbvars, req, results, inserted, response>>

\* The open transaction and the counter once recompute_team_tag_highlights
\* returned r and _record_highlight_run wrote its row.
TeamTxn(c, r) ==
    /\ txn' = [Committed EXCEPT
                  !.types = r.types, !.th = r.th,
                  !.runs = _record_highlight_run(highlight_runs, matches,
                                                 req[c].season)]
    /\ inserted' = [inserted EXCEPT ![c] = @ + r.inserted]

\* The rest of recompute_team_tag_highlights and _record_highlight_run: the
\* first write opens a new transaction, under which matches, participants
\* and teams are read.
TeamWrite(c) ==
    /\ pc[c] = "between"
    /\ lock = NoConn
    /\ TeamTxn(c, recompute_team_tag_highlights(highlight_types, team_highlights,
                      matches, match_participants, tag_team_members, req[c].season))
    /\ lock' = c
    /\ pc' = [pc EXCEPT ![c] = "recorded"]
    /\ UNCHANGED <<dbvars, hlvars, req, results, response, hist>>

\* Whether a table holds some row more than once.
Dups(table) == \E r \in DOMAIN table : table[r] > 1

\* Whether what connection c is about to commit is what one whole recompute
\* of some state k of the match history stores: the wrestler labels of that
\* history with the watermark of that same history.
Serial(c) ==
    \E k \in 0 .. Len(matches) :
        /\ StoredLabels(txn.types, txn.wh, req[c].season)
              = dry_run_all(MatchesAt(k), ParticipantsAt(k), req[c].season)
        /\ txn.runs[Len(txn.runs)] = WatermarkOf(MatchesAt(k), req[c].season)

\* Another connection is inside a run of the same season.
Overlapping(c) ==
    \E d \in Conns \ {c} : pc[d] # "idle" /\ req[d].season = req[c].season

\* A run of another connection on the same season was committed while this
\* run was in progress.
Overlapped(c) ==
    /\ hist.ov # NoHist
    /\ hist.ov.conn # c
    /\ hist.ov.season = req[c].season

\* The history's note of the full runs of a season on unchanged data: the
\* rows the first one stored, and how the next ones compare.
FullNote(c) ==
    LET s == req[c].season
        post == Stored(txn.wh, txn.th, s)
        old == hist.full[s]
    IN  IF req[c].op # "all" THEN old
        ELSE IF hist.run[c].ver # hist.ver THEN NoHist
        ELSE IF old # NoHist
             THEN [old EXCEPT !.again = IF post = old.stored THEN "same" ELSE "differ",
                              !.dups = Dups(post.wh) \/ Dups(post.th)]
             ELSE [stored |-> post, again |-> "no", dups |-> FALSE]

\* conn.commit() and the redirect that reports `added`.
CommitRun(c) ==
    /\ pc[c] = "recorded"
    /\ lock = c
    /\ CommitTxn
    /\ pc' = [pc EXCEPT ![c] = "idle"]
    /\ response' = [response EXCEPT ![c] =
                       Redirect("persisted", req[c].season, inserted[c])]
    /\ req' = [req EXCEPT ![c] = NoReq]
    /\ results' = [results EXCEPT ![c] = {}]
    /\ inserted' = [inserted EXCEPT ![c] = 0]
    /\ hist' = [hist EXCEPT
                  !.run[c] = NoHist,
                  !.done = [season |-> req[c].season,
                            had |-> ~SeasonEmpty(hist.run[c].pre.wh,
                                                 hist.run[c].pre.th, req[c].season),
                            zero |-> hist.run[c].zero,
                            has |-> ~SeasonEmpty(txn.wh, txn.th, req[c].season),
                            runs |-> Len(txn.runs) - hist.run[c].runs,
                            ignored |-> inserted[c] >
                                BagCardinality(SeasonRows(txn.wh, req[c].season))
                                + BagCardinality(SeasonRows(txn.th, req[c].season)),
                            ov |-> Overlapped(c),
                            serial |-> Serial(c)],
                  !.ov = IF Overlapping(c)
                         THEN [conn |-> c, season |-> req[c].season]
                         ELSE NoHist,
                  !.full[req[c].season] = FullNote(c),
                  !.incr[req[c].season] =
                      IF req[c].op # "incr" THEN @ ELSE IF @ = 0 THEN 1 ELSE 2]
    /\ UNCHANGED dbvars

\* The wrestler step of the run of connection c: what its insert loop
\* returns where it has yet to run, the tables it left otherwise.
AfterWrestlers(c) ==
    IF pc[c] = "computed"
    THEN PersistLoop(highlight_types,
                     DeleteSeason(wrestler_highlights, req[c].season), 0,
                     Items(results[c]), req[c].season)
    ELSE IF lock = c THEN txn ELSE Committed

\* The rows of the season once the run whose wrestler step left w ends.
PostWith(c, w) ==
    Stored(w.wh,
           IF pc[c] = "recorded" THEN txn.th
           ELSE recompute_team_tag_highlights(w.types, team_highlights, matches,
                    match_participants, tag_team_members, req[c].season).th,
           req[c].season)

\* What the run of connection c stores when it runs to its end from here.
PostOf(c) == PostWith(c, AfterWrestlers(c))

\* An exception or the end of the process anywhere inside the handler (a
\* failed write, "database is locked" after the busy timeout): `finally`
\* closes the connection, which rolls its open transaction back.
Abort(c) ==
    /\ pc[c] # "idle"
    /\ IF lock = c THEN lock' = NoConn /\ txn' = NoTxn ELSE UNCHANGED <<lock, txn>>
    /\ pc' = [pc EXCEPT ![c] = "idle"]
    /\ response' = [response EXCEPT ![c] = Redirect("error", req[c].season, 0)]
    /\ req' = [req EXCEPT ![c] = NoReq]
    /\ results' = [results EXCEPT ![c] = {}]
    /\ inserted' = [inserted EXCEPT ![c] = 0]
    /\ hist' = [hist EXCEPT
                  !.run[c] = NoHist,
                  !.ov = IF Overlapped(c) THEN NoHist ELSE @,
                  !.ab = [season |-> req[c].season,
                          pre |-> Stored(wrestler_highlights, team_highlights,
                                         req[c].season) = hist.run[c].pre,
                          post |-> Stored(wrestler_highlights, team_highlights,
                                          req[c].season) = PostOf(c),
                          runs |-> Len(highlight_runs) - hist.run[c].runs,
                          at |-> pc[c]]]
    /\ UNCHANGED <<dbvars, hlvars>>

---------------------------------------------------------------------------
\* The two older persist handlers, each one transaction, run without a
\* concurrent writer.

\* What the older handlers commit once the insert loop returned r.
OlderTxn(c, season, r) ==
    /\ response' = [response EXCEPT ![c] = Redirect("persisted", season, r.inserted)]
    /\ highlight_types' = r.types
    /\ wrestler_highlights' = r.wh

\* The loop of persist_world_tag over n items: an item whose label is not
\* registered raises, and nothing is committed.
WorldTagTxn(c, season, n, r) ==
    IF r.inserted # n
    THEN /\ response' = [response EXCEPT ![c] = Redirect("error", season, 0)]
         /\ UNCHANGED <<highlight_types, wrestler_highlights>>
    ELSE OlderTxn(c, season, r)

\* admin_highlights_persist_world_tag: _label_to_type_id raises where
\* _label_id returns -1, which ends the handler without a commit.
admin_highlights_persist_world_tag(c, season) ==
    /\ pc[c] = "idle"
    /\ lock = NoConn
    /\ WorldTagTxn(c, season, Cardinality(dry_run_world_tag(matches,
                                               match_participants, season)),
                   PersistLoop(highlight_types,
                               DeleteSeason(wrestler_highlights, season), 0,
                               Items(dry_run_world_tag(matches, match_participants,
                                                       season)), season))
    /\ UNCHANGED <<dbvars, team_highlights, highlight_runs, lock, txn,
                   pc, req, results, inserted, hist>>

\* admin_highlights_persist_all_except_us: the same loop, then the watermark.
admin_highlights_persist_all_except_us(c, season) ==
    /\ pc[c] = "idle"
    /\ lock = NoConn
    /\ Len(highlight_runs) < MaxRuns
    /\ OlderTxn(c, season,
                PersistLoop(highlight_types,
                            DeleteSeason(wrestler_highlights, season), 0,
                            Items(dry_run_all_except_us(matches, match_participants,
                                                        season)), season))
    /\ highlight_runs' = _record_highlight_run(highlight_runs, matches, season)
    /\ UNCHANGED <<dbvars, team_highlights, lock, txn,
                   pc, req, results, inserted, hist>>

---------------------------------------------------------------------------
\* The match files and rosters the model imports.
Side(a, b) == (1 :> a) @@ (2 :> b)

MatchRow(season, T, R, result, winner_side, sides) ==
    [season |-> season, tournament |-> T, round |-> R, result |-> result,
     winner_side |-> winner_side, day |-> 1, sides |-> sides]

\* Tag Team World matches of season 1 between {1,2} and {3,4}: a Final won
\* by side 1, a drawn Final, and a Semi Final that {1,2} loses.
TagFinalWon == MatchRow(1, T_TAG_WORLD, ROUND_F, "win", 1, Side({1, 2}, {3, 4}))
TagFinalDrawn == MatchRow(1, T_TAG_WORLD, ROUND_F, "draw", NULL, Side({1, 2}, {3, 4}))
TagSemiLost == MatchRow(1, T_TAG_WORLD, ROUND_SF, "win", 2, Side({1, 2}, {3, 4}))

TagFiles == {TagFinalWon, TagFinalDrawn, TagSemiLost}
TagRosters == {{1, 2}}

\* The importers beside one admin connection whose recomputes may fail.
Next ==
    \/ \E m \in TagFiles : Len(matches) < MaxMatches /\ import_all(m)
    \/ \E t \in TagRosters : Cardinality(TeamIds) < MaxTeams /\ upsert_team(t)
    \/ \E s \in Seasons : PersistAllStart("c1", s)
    \/ \E s \in Seasons : PersistIncrStart("c1", s)
    \/ WriteWrestlers("c1")
    \/ EnsureSchemaCommit("c1")
    \/ TeamWrite("c1")
    \/ CommitRun("c1")
    \/ Abort("c1")

Spec == Init /\ [][Next]_vars

\* A season whose Tag Team World Semi Finals come first, each lost by {1,2},
\* and its Final after them.
AllFile(i) == IF i <= 2 THEN TagSemiLost ELSE TagFinalWon

\* Every handler that writes the highlight tables, on one admin connection,
\* beside the importers and the seeding.
NextAll ==
    \/ Len(matches) < MaxMatches /\ import_all(AllFile(Len(matches) + 1))
    \/ \E t \in TagRosters : Cardinality(TeamIds) < MaxTeams /\ upsert_team(t)
    \/ admin_seed_highlights
    \/ \E s \in Seasons : PersistAllStart("c1", s)
    \/ \E s \in Seasons : PersistIncrStart("c1", s)
    \/ WriteWrestlers("c1")
    \/ EnsureSchemaCommit("c1")
    \/ TeamWrite("c1")
    \/ CommitRun("c1")
    \/ \E s \in Seasons : admin_highlights_persist_world_tag("c1", s)
    \/ \E s \in Seasons : admin_highlights_persist_all_except_us("c1", s)

SpecAll == Init /\ [][NextAll]_vars

\* A season whose Tag Team World Final is replayed: won, drawn, won, ...
VisFile(i) == IF i % 2 = 1 THEN TagFinalWon ELSE TagFinalDrawn

\* The importers beside the full recomputes of that season, which a reader
\* on another connection watches.
NextVis ==
    \/ Len(matches) < MaxVis /\ import_all(VisFile(Len(matches) + 1))
    \/ \E t \in TagRosters : Cardinality(TeamIds) < MaxTeams /\ upsert_team(t)
    \/ PersistAllStart("c1", 1)
    \/ WriteWrestlers("c1")
    \/ EnsureSchemaCommit("c1")
    \/ TeamWrite("c1")
    \/ CommitRun("c1")

SpecVis == Init /\ [][NextVis]_vars

\* Two admin connections recomputing season 1 beside the importer.
NextConc ==
    \/ Len(matches) < MaxMatches /\ import_all(VisFile(Len(matches) + 1))
    \/ \E c \in Conns : PersistAllStart(c, 1)
    \/ \E c \in Conns : PersistIncrStart(c, 1)
    \/ \E c \in Conns : WriteWrestlers(c)
    \/ \E c \in Conns : EnsureSchemaCommit(c)
    \/ \E c \in Conns : TeamWrite(c)
    \/ \E c \in Conns : CommitRun(c)

SpecConc == Init /\ [][NextConc]_vars

\* Singles matches between two wrestlers.
Solo(a, b) == (1 :> {a}) @@ (2 :> {b})

\* Files of bracketed and one-off tournaments, with the results the importer
\* accepts: a won match, and a draw or no contest with or without a Winner
\* Side.  One Final spells its round in upper case.
DeriveFiles ==
    {MatchRow(1, T_WORLD_MEN, ROUND_QF, "win", 1, Solo(1, 2)),
     MatchRow(1, T_WORLD_MEN, ROUND_SF, "win", 1, Solo(1, 2)),
     MatchRow(1, T_WORLD_MEN, ROUND_SF, "win", 2, Solo(1, 3)),
     MatchRow(1, T_WORLD_MEN, ROUND_F, "win", 1, Solo(1, 2)),
     MatchRow(1, T_WORLD_MEN, ROUND_F, "draw", 1, Solo(1, 2)),
     MatchRow(1, T_WORLD_MEN, ROUND_F, "nc", NULL, Solo(1, 2)),
     MatchRow(1, T_NXT_MEN, ROUND_SF, "win", 1, Solo(1, 2)),
     MatchRow(1, T_NXT_MEN, "FINAL", "win", 2, Solo(1, 2)),
     MatchRow(1, T_RUMBLE_MEN, "", "nc", 1, Solo(1, 2)),
     MatchRow(1, T_US_MEN, "", "win", 1, Solo(1, 2)),
     MatchRow(2, T_WORLD_MEN, ROUND_SF, "win", 2, Solo(1, 2))}

\* The importer beside the dry-run page.
NextDerive ==
    \/ \E m \in DeriveFiles : Len(matches) < MaxDerive /\ import_all(m)
    \/ \E s \in Seasons \cup {NULL} : admin_highlights_dry_run("c1", s)

SpecDerive == Init /\ [][NextDerive]_vars

\* Rosters around the side {1,2}: the team itself, a team that shares one
\* member with it, and a team of three that holds both.
RosterFiles == {{1, 2}, {1, 3}, {1, 2, 3}}

\* The roster import beside the full recomputes of a season whose Tag Team
\* World Final {1,2} won.
NextTeams ==
    \/ Len(matches) < MaxFinals /\ import_all(TagFinalWon)
    \/ \E t \in RosterFiles : Cardinality(TeamIds) < MaxRoster /\ upsert_team(t)
    \/ PersistAllStart("c1", 1)
    \/ WriteWrestlers("c1")
    \/ EnsureSchemaCommit("c1")
    \/ TeamWrite("c1")
    \/ CommitRun("c1")

SpecTeams == Init /\ [][NextTeams]_vars

\* Tag Team World Finals of season 1 won by side 1: three wrestlers against
\* one, and {1,2} against {3,4} entered as sides 1 and 3.
TrioFinalWon ==
    MatchRow(1, T_TAG_WORLD, ROUND_F, "win", 1, (1 :> {1, 2, 3}) @@ (2 :> {4}))
GapFinalWon ==
    MatchRow(1, T_TAG_WORLD, ROUND_F, "win", 1, (1 :> {1, 2}) @@ (3 :> {3, 4}))

SideFiles == {TagFinalWon, TrioFinalWon, GapFinalWon}
SideRosters == {{1, 2}, {3, 4}, {1, 2, 3}}

\* The importers and the match edit form beside the full recomputes of
\* season 1.
NextSides ==
    \/ \E m \in SideFiles : Len(matches) < MaxSideMatches /\ import_all(m)
    \/ \E t \in SideRosters : Cardinality(TeamIds) < MaxSideTeams /\ upsert_team(t)
    \/ \E mid \in 1 .. MaxSideMatches, w \in {NULL, 1, 2} :
          hist.ver < MaxEdits /\ match_edit_submit(mid, w)
    \/ PersistAllStart("c1", 1)
    \/ WriteWrestlers("c1")
    \/ EnsureSchemaCommit("c1")
    \/ TeamWrite("c1")
    \/ CommitRun("c1")

SpecSides == Init /\ [][NextSides]_vars

\* A season whose Tag Team World Semi Final, lost by {1,2}, is followed by
\* Finals that {1,2} win.
FrameFile(i) == IF i = 1 THEN TagSemiLost ELSE TagFinalWon

\* The importers beside the dry-run page and the full and incremental
\* recomputes of season 1, which may fail.
NextFrame ==
    \/ Len(matches) < MaxMatches /\ import_all(FrameFile(Len(matches) + 1))
    \/ \E t \in TagRosters : Cardinality(TeamIds) < MaxTeams /\ upsert_team(t)
    \/ \E s \in {1, NULL} : admin_highlights_dry_run("c1", s)
    \/ PersistAllStart("c1", 1)
    \/ PersistIncrStart("c1", 1)
    \/ WriteWrestlers("c1")
    \/ EnsureSchemaCommit("c1")
    \/ TeamWrite("c1")
    \/ CommitRun("c1")
    \/ Abort("c1")

SpecFrame == Init /\ [][NextFrame]_vars

\* A Tag Team World Final of season 1 that {3,4} win against {1,3}.
TagFinalOthers == MatchRow(1, T_TAG_WORLD, ROUND_F, "win", 1, Side({3, 4}, {1, 3}))

\* A season whose Tag Team World Semi Final, lost by {1,2}, is followed by
\* Finals with or without {1,2}.
EditFiles(i) == IF i = 1 THEN {TagSemiLost} ELSE {TagFinalWon, TagFinalOthers}

\* The importers and the match and team edit forms beside the full and
\* incremental recomputes of season 1.
NextEdits ==
    \/ \E m \in EditFiles(Len(matches) + 1) :
          Len(matches) < MaxEditMatches /\ import_all(m)
    \/ Cardinality(TeamIds) < MaxEditTeams
          /\ upsert_team(IF TeamIds = {} THEN {1, 2} ELSE {3, 4})
    \/ \E mid \in 1 .. MaxEditMatches, w \in {NULL, 1, 2} :
          hist.ver < MaxEdits /\ match_edit_submit(mid, w)
    \/ \E tid \in 1 .. MaxEditTeams :
          hist.ver < MaxEdits /\ teams_edit_submit(tid, {1, 3})
    \/ PersistAllStart("c1", 1)
    \/ PersistIncrStart("c1", 1)
    \/ WriteWrestlers("c1")
    \/ EnsureSchemaCommit("c1")
    \/ TeamWrite("c1")
    \/ CommitRun("c1")

SpecEdits == Init /\ [][NextEdits]_vars

\* The importers of a Tag Team World Semi Final of season 1 and a Final of
\* season 2 beside the full and incremental recomputes of both seasons.
NextSeasons ==
    \/ \E m \in {TagSemiLost,
                  MatchRow(2, T_TAG_WORLD, ROUND_F, "win", 1, Side({1, 2}, {3, 4}))} :
          Len(matches) < MaxMatches /\ import_all(m)
    \/ \E t \in TagRosters : Cardinality(TeamIds) < MaxTeams /\ upsert_team(t)
    \/ \E s \in Seasons : PersistAllStart("c1", s)
    \/ \E s \in Seasons : PersistIncrStart("c1", s)
    \/ WriteWrestlers("c1")
    \/ EnsureSchemaCommit("c1")
    \/ TeamWrite("c1")
    \/ CommitRun("c1")

SpecSeasons == Init /\ [][NextSeasons]_vars

\* Files of the finals-only championships and of the one-off tournaments:
\* Underground rounds below the Final, a Hardcore season whose Final is
\* drawn, Royal Rumbles of three sides and of two, one without a winner, and
\* an Elimination Chamber won by a side of two under a round name.
FamilyFiles ==
    {MatchRow(1, T_UNDERGROUND_MEN, ROUND_QF, "win", 1, Solo(3, 4)),
     MatchRow(1, T_UNDERGROUND_MEN, ROUND_SF, "win", 1, Solo(3, 4)),
     MatchRow(1, T_UNDERGROUND_MEN, ROUND_F, "win", 1, Solo(1, 2)),
     MatchRow(2, T_HARDCORE_WOMEN, ROUND_SF, "win", 2, Solo(1, 2)),
     MatchRow(2, T_HARDCORE_WOMEN, ROUND_F, "draw", NULL, Solo(1, 2)),
     MatchRow(1, T_RUMBLE_MEN, "", "win", 2, (1 :> {1}) @@ (2 :> {2}) @@ (3 :> {3})),
     MatchRow(1, T_RUMBLE_MEN, "", "win", 1, Solo(3, 4)),
     MatchRow(1, T_RUMBLE_MEN, "", "nc", NULL, Solo(1, 2)),
     MatchRow(2, T_ELIM_WOMEN, ROUND_F, "win", 1, Side({1, 2}, {3}))}

\* The importer beside the dry-run page.
NextFamily ==
    \/ \E m \in FamilyFiles : Len(matches) < MaxFamily /\ import_all(m)
    \/ \E s \in Seasons \cup {NULL} : admin_highlights_dry_run("c1", s)

SpecFamily == Init /\ [][NextFamily]_vars

---------------------------------------------------------------------------
\* Properties.

\* C1: two full recomputes of a season in succession, with no change of
\* matches, participants or teams from the start of the first to the end of
\* the second, leave the same wrestler_highlights and team_highlights rows
\* of the season after the second as after the first, none of them twice.
IdempotentRecompute ==
    \A s \in Seasons :
        hist.full[s] # NoHist =>
            hist.full[s].again # "differ" /\ ~hist.full[s].dups

IdempotentRecomputeWitness ==
    /\ hist.full[1] # NoHist
    /\ hist.full[1].again = "same"
    /\ BagToSet(hist.full[1].stored.wh) # {}
    /\ BagToSet(hist.full[1].stored.th) # {}
    /\ SeasonRows(wrestler_highlights, 1) = hist.full[1].stored.wh

AbortAtomicity ==
    hist.ab # NoHist => (hist.ab.pre \/ hist.ab.post)

\* C4: when two recomputes of one season overlapped, what the later one
\* commits is what one whole recompute of some state of the match history
\* stores: wrestler labels and watermark of the same history.
SameSeasonSerialized ==
    (hist.done # NoHist /\ hist.done.ov) => hist.done.serial

\* C5: a recompute of a season that had stored achievements before it and
\* has some after it never left the season with none in the committed
\* tables in between.
AllOrNothingVisibility ==
    hist.done # NoHist =>
        ~(hist.done.had /\ hist.done.zero /\ hist.done.has)

\* C6: a recompute that failed has left the season's stored achievements
\* as they were and added no highlight_runs row; a highlight_runs row is
\* only added by a recompute that ran to its commit.
WatermarkOnlyAfterSuccess ==
    /\ hist.ab # NoHist => (hist.ab.pre /\ hist.ab.runs = 0)
    /\ hist.done # NoHist => hist.done.runs = 1

\* C7: wrestler_highlights and team_highlights never hold a row twice,
\* neither committed nor inside the open transaction.
UniquenessInvariant ==
    /\ ~Dups(wrestler_highlights)
    /\ ~Dups(team_highlights)
    /\ txn # NoTxn => (~Dups(txn.wh) /\ ~Dups(txn.th))

UniquenessWitness ==
    /\ hist.done # NoHist
    /\ hist.done.ignored
    /\ BagToSet(SeasonRows(team_highlights, 1)) # {}
    /\ BagToSet(SeasonRows(wrestler_highlights, 1)) # {}

\* The tournaments played as a bracket, and the label of a tier of one.
Bracketed == {T_WORLD_MEN, T_WORLD_WOMEN, T_TAG_WORLD, T_NXT_MEN, T_NXT_WOMEN}

TierLabel(T, kind) ==
    IF T \in {T_NXT_MEN, T_NXT_WOMEN}
    THEN _label_for_nxt(T, kind) ELSE _label_for_world(T, kind)

Holds(res, w, T, kind) == <<w, TierLabel(T, kind)>> \in res

\* C8: in the labels derived for one season, no wrestler holds both the
\* semi-finalist and the quarter-finalist label of a bracketed tournament,
\* and a wrestler holding its champion or runner-up label holds neither.
SuppressionInvariant ==
    \A c \in Conns :
        (response[c].kind = "dry_run" /\ response[c].season # NULL) =>
            \A w \in Wrestlers, T \in Bracketed :
                /\ ~(Holds(response[c].results, w, T, "sf")
                     /\ Holds(response[c].results, w, T, "qf"))
                /\ (Holds(response[c].results, w, T, "champ")
                    \/ Holds(response[c].results, w, T, "runner"))
                   => /\ ~Holds(response[c].results, w, T, "sf")
                      /\ ~Holds(response[c].results, w, T, "qf")

\* Wrestler 2 lost a Quarter Final, a Semi Final and the Final of season 1
\* and is shown as runner-up.
SuppressionWitness ==
    /\ response["c1"].kind = "dry_run"
    /\ response["c1"].season = 1
    /\ hist.dry = hist.ver
    /\ Holds(response["c1"].results, 2, T_WORLD_MEN, "runner")
    /\ \A R \in {ROUND_QF, ROUND_SF, ROUND_F} :
          2 \in Losers(matches, match_participants,
                       _round_matches(matches, 1, T_WORLD_MEN, R))

\* The labels a tournament gives for its Final or for its single match, and
\* the row they are derived from.
Championships ==
    {T_WORLD_MEN, T_WORLD_WOMEN, T_TAG_WORLD, T_NXT_MEN, T_NXT_WOMEN,
     T_UNDERGROUND_MEN, T_UNDERGROUND_WOMEN, T_HARDCORE_MEN, T_HARDCORE_WOMEN}

TitleLabels(T) ==
    IF T \in {T_WORLD_MEN, T_WORLD_WOMEN, T_TAG_WORLD}
    THEN {_label_for_world(T, "champ"), _label_for_world(T, "runner")}
    ELSE IF T \in {T_NXT_MEN, T_NXT_WOMEN}
    THEN {_label_for_nxt(T, "champ"), _label_for_nxt(T, "runner")}
    ELSE IF T \in Championships
    THEN {_label_for_final_only(T, "champ"), _label_for_final_only(T, "runner")}
    ELSE {_ONE_OFF_WINNER_LABEL[T]}

DecidingMatch(ms, season, T) ==
    IF T \in Championships THEN _final_match(ms, season, T)
    ELSE _single_match(ms, season, T)

\* C9: when the Final of a championship, or the single match of a one-off
\* tournament, of a season is a draw or a no contest, the labels derived
\* for the season hold no champion, runner-up or winner label of it,
\* whatever the row's winner_side is.
VacancyOnDraw ==
    \A c \in Conns :
        (/\ response[c].kind = "dry_run"
         /\ response[c].season # NULL
         /\ hist.dry = hist.ver) =>
            \A T \in Championships \cup DOMAIN _ONE_OFF_WINNER_LABEL :
                LET m == DecidingMatch(matches, response[c].season, T)
                IN  (m # NoRow /\ matches[m].result \in {"draw", "nc"}) =>
                        \A w \in Wrestlers, l \in TitleLabels(T) :
                            <<w, l>> \notin response[c].results

\* The sides of two wrestlers and the members of a team.
TwoSides == {S \in SUBSET Wrestlers : Cardinality(S) = 2}

MembersOf(tm, t) == {m[2] : m \in {x \in tm : x[1] = t}}

\* C10: _side_to_team_id gives a side of two wrestlers a team only if the
\* team's members are exactly the side's, and the team_highlights rows are
\* rows of such teams: never of a team that shares one member with a side
\* of the Final, nor of one that holds the side and others.
TeamResolutionExact ==
    /\ \A side \in TwoSides :
          _side_to_team_id(tag_team_members, side) # NoTeam =>
              MembersOf(tag_team_members,
                        _side_to_team_id(tag_team_members, side)) = side
    /\ \A r \in BagToSet(team_highlights) :
          MembersOf(tag_team_members, r[1]) \in {{1, 2}, {3, 4}}

\* The champions {1,2} hold a row as a team registered after a team that
\* shares wrestler 1 with them and after a team of three that holds both.
TeamResolutionWitness ==
    \E r \in BagToSet(team_highlights) :
        /\ MembersOf(tag_team_members, r[1]) = {1, 2}
        /\ \E a \in TeamIds, b \in TeamIds :
              /\ a < r[1]
              /\ b < r[1]
              /\ MembersOf(tag_team_members, a) = {1, 3}
              /\ MembersOf(tag_team_members, b) = {1, 2, 3}

\* The sides that are not of two wrestlers, and the teams whose rows a
\* table of team_highlights holds.
OddSides == {S \in SUBSET Wrestlers : S # {} /\ Cardinality(S) # 2}

TeamsIn(th) == {r[1] : r \in BagToSet(th)}

\* C11: _side_to_team_id gives no team to a side of one wrestler or of
\* three or more, whatever teams are registered, and no team_highlights
\* row, committed or about to be, is a row of a team whose members are not
\* two.
OnlyPairsResolve ==
    /\ \A side \in OddSides : _side_to_team_id(tag_team_members, side) = NoTeam
    /\ \A t \in TeamsIn(team_highlights) \cup
                 (IF txn = NoTxn THEN {} ELSE TeamsIn(txn.th)) :
          Cardinality(MembersOf(tag_team_members, t)) = 2

\* What admin_highlights_persist_all stores for a season when it runs alone:
\* the rows of its insert loop and of recompute_team_tag_highlights.
FullWith(w, th, ms, ps, tm, season) ==
    Stored(w.wh,
           recompute_team_tag_highlights(w.types, th, ms, ps, tm, season).th,
           season)

FullRecompute(types, wh, th, ms, ps, tm, season) ==
    FullWith(PersistLoop(types, DeleteSeason(wh, season), 0,
                         Items(dry_run_all(ms, ps, season)), season),
             th, ms, ps, tm, season)

\* The season has no watermark row, or its position is not the one of its
\* latest watermark row.
Changed(season) ==
    \/ LatestRun(highlight_runs, season) = NoRow
    \/ highlight_runs[LatestRun(highlight_runs, season)]
          # WatermarkOf(matches, season)

\* C12: an incremental recompute of a season that has no watermark row, or
\* whose position differs from its latest watermark row, starts as the full
\* recompute starts from that state (the same results, nothing written),
\* and what it commits on unchanged data are the rows a full recompute of
\* the season stores and the watermark row of the season's position.
IncrementalAsFull ==
    [][\A c \in Conns, s \in Seasons :
          /\ (PersistIncrStart(c, s) /\ Changed(s)) =>
                /\ pc'[c] = "computed"
                /\ req'[c].season = s
                /\ results'[c] = dry_run_all(matches, match_participants, s)
                /\ inserted'[c] = 0
                /\ response'[c] = NoResponse
                /\ UNCHANGED <<dbvars, hlvars, lock, txn>>
          /\ (/\ CommitRun(c)
              /\ req[c].op = "incr"
              /\ req[c].season = s
              /\ hist.run[c].ver = hist.ver) =>
                /\ Stored(wrestler_highlights', team_highlights', s)
                      = FullRecompute(highlight_types, wrestler_highlights,
                                      team_highlights, matches, match_participants,
                                      tag_team_members, s)
                /\ highlight_runs'
                      = Append(highlight_runs, WatermarkOf(matches, s))]_vars

\* Season 1 was recomputed, a match was imported, and an incremental
\* recompute stored the new rows and the second watermark row.
IncrementalAsFullWitness ==
    /\ hist.done # NoHist
    /\ hist.done.season = 1
    /\ hist.incr[1] = 1
    /\ response["c1"].kind = "persisted"
    /\ Len(highlight_runs) = 2
    /\ highlight_runs[1].season = 1
    /\ highlight_runs[2] = WatermarkOf(matches, 1)
    /\ highlight_runs[1] # highlight_runs[2]
    /\ BagToSet(SeasonRows(wrestler_highlights, 1)) # {}
    /\ BagToSet(SeasonRows(team_highlights, 1)) # {}

\* A Final row whose result is a win and whose winner_side is a side
\* without participant rows.
Malformed(ms, ps, m) ==
    /\ m # NoRow
    /\ ms[m].result = "win"
    /\ ms[m].winner_side \notin DOMAIN _participants_by_side(ps, m)

\* The team_highlights rows of a season that carry one of the labels.
TeamRowsOf(types, th, season, labels) ==
    {r \in BagToSet(SeasonRows(th, season)) :
        \E l \in labels : r[2] = TypeIdOf(types, l)}

\* C13: when the Final of a championship is a win whose winner_side has no
\* participant rows, the results of a recompute hold no champion and no
\* runner-up label of that championship, and the team rows the recompute is
\* about to commit hold none for Tag Team World.
MalformedExcluded ==
    \A c \in Conns :
        /\ (pc[c] = "computed" /\ hist.run[c].ver = hist.ver) =>
              \A T \in Championships :
                  Malformed(matches, match_participants,
                            _final_match(matches, req[c].season, T)) =>
                      \A w \in Wrestlers, l \in TitleLabels(T) :
                          <<w, l>> \notin results[c]
        /\ (pc[c] = "recorded" /\ lock = c) =>
              (Malformed(matches, match_participants,
                         _final_match(matches, req[c].season, T_TAG_WORLD)) =>
                  TeamRowsOf(txn.types, txn.th, req[c].season,
                             TitleLabels(T_TAG_WORLD)) = {})

\* The registered teams whose members are exactly the set S.
TeamsOf(tm, S) == {t \in {m[1] : m \in tm} : MembersOf(tm, t) = S}

\* C14: a side of two wrestlers who are the members of more than one
\* registered team resolves to no team, and the team rows a recompute is
\* about to commit hold no row of a team whose members are also the members
\* of another team.
AmbiguousUnresolved ==
    /\ \A side \in TwoSides :
          Cardinality(TeamsOf(tag_team_members, side)) > 1 =>
              _side_to_team_id(tag_team_members, side) = NoTeam
    /\ \A c \in Conns :
          (pc[c] = "recorded" /\ lock = c) =>
              \A r \in BagToSet(SeasonRows(txn.th, req[c].season)) :
                  Cardinality(TeamsOf(tag_team_members,
                                      MembersOf(tag_team_members, r[1]))) <= 1

\* The watermark row of a season without matches.
EmptyPosition(season) ==
    [season |-> season, last_day |-> -1, last_order |-> -1, last_match_id |-> NULL]

\* C15: a recompute of a season that has no match ends with its commit and
\* the report of the rows added, leaves no wrestler_highlights and no
\* team_highlights row of the season, and appends the watermark row of the
\* empty position: last_day -1, last_order -1, last_match_id NULL.
ZeroMatchSeason ==
    [][\A c \in Conns :
          (CommitRun(c) /\ \A i \in DOMAIN matches :
                              matches[i].season # req[c].season) =>
              /\ SeasonEmpty(wrestler_highlights', team_highlights', req[c].season)
              /\ highlight_runs'
                    = Append(highlight_runs, EmptyPosition(req[c].season))
              /\ response'[c] = Redirect("persisted", req[c].season, 0)]_vars

\* Season 2, which has no match, was recomputed beside a season 1 that has.
ZeroMatchSeasonWitness ==
    /\ hist.done # NoHist
    /\ hist.done.season = 2
    /\ response["c1"] = Redirect("persisted", 2, 0)
    /\ \E i \in DOMAIN matches : matches[i].season = 1
    /\ \A i \in DOMAIN matches : matches[i].season # 2
    /\ highlight_runs # <<>>
    /\ highlight_runs[Len(highlight_runs)] = EmptyPosition(2)
    /\ SeasonEmpty(wrestler_highlights, team_highlights, 2)

\* C16: every step of the dry run, of a full or incremental recompute (its
\* failure included), that is every step that changes a connection's
\* position or response, the highlight tables, the open transaction or the
\* write lock, leaves matches, match_participants and tag_team_members as
\* they are.
ReadOnlyInputs ==
    [][(\/ connvars' # connvars
        \/ hlvars' # hlvars
        \/ txn' # txn
        \/ lock' # lock) => UNCHANGED dbvars]_vars

\* A dry run after a full and an incremental recompute of season 1, with
\* matches, participants and a team on file.
ReadOnlyInputsWitness ==
    /\ response["c1"].kind = "dry_run"
    /\ response["c1"].results # {}
    /\ hist.dry = hist.ver
    /\ hist.incr[1] >= 1
    /\ Len(highlight_runs) = 2
    /\ Len(matches) = 2
    /\ match_participants # {}
    /\ tag_team_members # {}
    /\ BagToSet(team_highlights) # {}

\* The label a championship gives for a tier, the wrestlers who hold a
\* label in a result, the Final rows of a season and the wrestlers on the
\* sides of a match.
TitleLabel(T, kind) ==
    IF T \in {T_WORLD_MEN, T_WORLD_WOMEN, T_TAG_WORLD} THEN _label_for_world(T, kind)
    ELSE IF T \in {T_NXT_MEN, T_NXT_WOMEN} THEN _label_for_nxt(T, kind)
    ELSE _label_for_final_only(T, kind)

Holders(res, label) == {w \in Wrestlers : <<w, label>> \in res}

FinalsOf(ms, season, T) ==
    {i \in DOMAIN ms : /\ ms[i].season = season
                       /\ Lower(ms[i].tournament) = Lower(T)
                       /\ Lower(ms[i].round) = "final"}

OnSides(ps, m, sides) == {p[3] : p \in {q \in ps : q[1] = m /\ q[2] \in sides}}

SidesOf(ps, m) == {p[2] : p \in {q \in ps : q[1] = m}}

\* A dry run of one season shown for the data as it is.
Shown(c) ==
    /\ response[c].kind = "dry_run"
    /\ response[c].season # NULL
    /\ hist.dry = hist.ver

InFinal(ms, ps, season, T) ==
    IF FinalsOf(ms, season, T) = {} THEN {}
    ELSE OnSides(ps, Max(FinalsOf(ms, season, T)),
                 SidesOf(ps, Max(FinalsOf(ms, season, T))))

\* C18: in the labels derived for a season, the holders of the
\* semi-finalist label of a bracketed championship are the wrestlers on a
\* losing side of one of its Semi Finals who are on no side of its Final,
\* whether that Final was won, drawn or left without a contest.
SemiFinalistRule ==
    \A c \in Conns :
        Shown(c) =>
            \A T \in Bracketed :
                Holders(response[c].results, TierLabel(T, "sf"))
                    = Losers(matches, match_participants,
                             _round_matches(matches, response[c].season, T, ROUND_SF))
                        \ InFinal(matches, match_participants, response[c].season, T)

\* The wrestlers on any side of any Semi Final of a championship's season.
InSemis(ms, ps, season, T) ==
    UNION {OnSides(ps, i, SidesOf(ps, i)) :
              i \in _round_matches(ms, season, T, ROUND_SF)}

\* C19: in the labels derived for a season, the holders of the
\* quarter-finalist label of a World championship are the wrestlers on a
\* losing side of one of its Quarter Finals who are on no side of its Final
\* and on no side of any of its Semi Finals.
QuarterFinalistRule ==
    \A c \in Conns :
        Shown(c) =>
            \A T \in {T_WORLD_MEN, T_WORLD_WOMEN} :
                Holders(response[c].results, TierLabel(T, "qf"))
                    = Losers(matches, match_participants,
                             _round_matches(matches, response[c].season, T, ROUND_QF))
                        \ (InFinal(matches, match_participants, response[c].season, T)
                           \cup InSemis(matches, match_participants,
                                        response[c].season, T))

\* C20: in the labels derived for a season in which a bracketed
\* championship has no Final, nobody holds its champion or runner-up label,
\* every wrestler on a losing side of one of its Semi Finals holds its
\* semi-finalist label and nobody else does, and, for the championships
\* with a quarter-finalist tier, its holders are the Quarter Final losers
\* who are on no side of a Semi Final.
MissingFinal ==
    \A c \in Conns :
        Shown(c) =>
            \A T \in Bracketed :
                FinalsOf(matches, response[c].season, T) = {} =>
                    /\ Holders(response[c].results, TierLabel(T, "champ")) = {}
                    /\ Holders(response[c].results, TierLabel(T, "runner")) = {}
                    /\ Holders(response[c].results, TierLabel(T, "sf"))
                          = Losers(matches, match_participants,
                                   _round_matches(matches, response[c].season,
                                                  T, ROUND_SF))
                    /\ T \in {T_WORLD_MEN, T_WORLD_WOMEN} =>
                          Holders(response[c].results, TierLabel(T, "qf"))
                             = Losers(matches, match_participants,
                                      _round_matches(matches, response[c].season,
                                                     T, ROUND_QF))
                                 \ InSemis(matches, match_participants,
                                           response[c].season, T)

\* Season 1 has a Mens World Quarter Final and Semi Final and no Final; the
\* dry run shows the Semi Final's loser as semi-finalist and the Quarter
\* Final's loser, who was in no Semi Final, as quarter-finalist.
MissingFinalWitness ==
    /\ Shown("c1")
    /\ response["c1"].season = 1
    /\ FinalsOf(matches, 1, T_WORLD_MEN) = {}
    /\ _round_matches(matches, 1, T_WORLD_MEN, ROUND_QF) # {}
    /\ Holders(response["c1"].results, TierLabel(T_WORLD_MEN, "sf")) = {1}
    /\ Holders(response["c1"].results, TierLabel(T_WORLD_MEN, "qf")) = {2}

FinalsOnly ==
    {T_UNDERGROUND_MEN, T_UNDERGROUND_WOMEN, T_HARDCORE_MEN, T_HARDCORE_WOMEN}

\* The labels of a dry run that are no champion or runner-up label of a
\* finals-only championship: every tier of the bracketed championships, the
\* winner labels of the one-off tournaments and of the US titles.
OtherFamilyLabels ==
    {TierLabel(T, kind) : T \in Bracketed, kind \in {"champ", "runner", "sf"}}
    \cup {_label_for_world(T, "qf") : T \in {T_WORLD_MEN, T_WORLD_WOMEN}}
    \cup {_ONE_OFF_WINNER_LABEL[T] : T \in DOMAIN _ONE_OFF_WINNER_LABEL}
    \cup {US_WINNER_LABEL[T] : T \in DOMAIN US_WINNER_LABEL}

\* C21: every label a dry run derives, for one season or for all, from any
\* match history, Semi Finals and Quarter Finals of Underground and Hardcore
\* included, is a champion or runner-up label of a finals-only championship
\* or a label of another family; a wrestler who only lost such a round holds
\* no label of the championship.
FinalsOnlyFamily ==
    \A c \in Conns :
        response[c].kind = "dry_run" =>
            \A p \in response[c].results :
                \/ \E T \in FinalsOnly : p[2] \in TitleLabels(T)
                \/ p[2] \in OtherFamilyLabels

\* Season 1 has an Underground Semi Final that wrestler 4 lost and an
\* Underground Final that wrestler 1 won; the dry run shows the champion and
\* no label for wrestler 4.
FinalsOnlyFamilyWitness ==
    /\ Shown("c1")
    /\ response["c1"].season = 1
    /\ _round_matches(matches, 1, T_UNDERGROUND_MEN, ROUND_SF) # {}
    /\ Holders(response["c1"].results, TitleLabel(T_UNDERGROUND_MEN, "champ")) = {1}
    /\ \A p \in response["c1"].results : p[1] # 4

\* The rows of a one-off tournament in a season, whatever their round.
OneOffRows(ms, season, T) ==
    {i \in DOMAIN ms : ms[i].season = season /\ Lower(ms[i].tournament) = Lower(T)}

\* C22: in the labels derived for a season, the holders of the winner label
\* of a one-off tournament are the wrestlers on the winner side of the
\* tournament's match (the row of highest id), nobody when there is no row
\* or no winner side, and no wrestler on another side of that match holds it.
OneOffFamily ==
    \A c \in Conns :
        Shown(c) =>
            \A T \in DOMAIN _ONE_OFF_WINNER_LABEL :
                LET rows == OneOffRows(matches, response[c].season, T)
                    held == Holders(response[c].results, _ONE_OFF_WINNER_LABEL[T])
                IN  IF rows = {} \/ matches[MaxOr(rows, 1)].winner_side = NULL
                    THEN held = {}
                    ELSE /\ held = OnSides(match_participants, Max(rows),
                                           {matches[Max(rows)].winner_side})
                         /\ held \cap OnSides(match_participants, Max(rows),
                                              SidesOf(match_participants, Max(rows))
                                                 \ {matches[Max(rows)].winner_side})
                               = {}

\* Season 1 has a Royal Rumble that wrestler 3 won and, after it, one of
\* three sides that wrestler 2 won; the dry run shows wrestler 2 alone as
\* the winner, and wrestlers 1 and 3 of that match with no label at all.
OneOffFamilyWitness ==
    /\ Shown("c1")
    /\ response["c1"].season = 1
    /\ Cardinality(OneOffRows(matches, 1, T_RUMBLE_MEN)) = 2
    /\ Cardinality(SidesOf(match_participants,
                           Max(OneOffRows(matches, 1, T_RUMBLE_MEN)))) = 3
    /\ response["c1"].results = {<<2, _ONE_OFF_WINNER_LABEL[T_RUMBLE_MEN]>>}

\* The teams that sides of a match resolve to.
ResolvedTeams(tm, ps, m, sides) ==
    {_side_to_team_id(tm, OnSides(ps, m, {sd})) : sd \in sides} \ {NoTeam}

\* The teams of the losing sides of the season's Tag Team World Semi Finals
\* that have a winner, and the teams of the sides of its Final.
SemiLosingTeams(ms, ps, tm, season) ==
    UNION {ResolvedTeams(tm, ps, i, SidesOf(ps, i) \ {ms[i].winner_side}) :
              i \in {j \in _round_matches(ms, season, T_TAG_WORLD, ROUND_SF) :
                        ms[j].winner_side # NULL}}

FinalTeams(ms, ps, tm, season) ==
    IF FinalsOf(ms, season, T_TAG_WORLD) = {} THEN {}
    ELSE ResolvedTeams(tm, ps, Max(FinalsOf(ms, season, T_TAG_WORLD)),
                       SidesOf(ps, Max(FinalsOf(ms, season, T_TAG_WORLD))))

\* The teams of the season's rows of one of the labels.
TeamsHolding(types, th, season, labels) ==
    {r[1] : r \in TeamRowsOf(types, th, season, labels)}

\* C23: the team rows a recompute of a season is about to commit give the
\* label Tag Team World Championship Semi-Finalist to the teams of the
\* losing sides of the season's Semi Finals with a winner that are the team
\* of no side of the season's Final, and to no other; no team holds it
\* beside the champion or runner-up label.
TeamSemiFinalist ==
    \A c \in Conns :
        (pc[c] = "recorded" /\ lock = c) =>
            /\ TeamsHolding(txn.types, txn.th, req[c].season,
                            {"Tag Team World Championship Semi-Finalist"})
                  = SemiLosingTeams(matches, match_participants, tag_team_members,
                                    req[c].season)
                    \ FinalTeams(matches, match_participants, tag_team_members,
                                 req[c].season)
            /\ TeamsHolding(txn.types, txn.th, req[c].season,
                            {"Tag Team World Championship Semi-Finalist"})
                  \cap TeamsHolding(txn.types, txn.th, req[c].season,
                                    {"Tag Team World Champion",
                                     "Tag Team World Championship Runner-up"}) = {}

\* Team 1 = {1,2} lost the Semi Final and is on no side of the Final that
\* team 2 = {3,4} won against {1,3}: the recompute is about to commit the
\* semi-finalist row of team 1 and the champion row of team 2.
TeamSemiFinalistWitness ==
    /\ pc["c1"] = "recorded"
    /\ lock = "c1"
    /\ Len(matches) = 2
    /\ FinalTeams(matches, match_participants, tag_team_members, 1) = {2}
    /\ TeamsHolding(txn.types, txn.th, 1,
                    {"Tag Team World Championship Semi-Finalist"}) = {1}
    /\ TeamsHolding(txn.types, txn.th, 1, {"Tag Team World Champion"}) = {2}

\* C24: a step that serves a dry run, for one season or for all, leaves
\* the rows of highlight_types, wrestler_highlights, team_highlights and
\* highlight_runs as they were, and opens no transaction.
DryRunDoesNotPersist ==
    [][(\E c \in Conns :
           /\ response'[c].kind = "dry_run"
           /\ pc' = pc
           /\ response'[c] # response[c] \/ hist'.dry # hist.dry)
       => UNCHANGED <<hlvars, txn, lock>>]_vars

\* A dry run of all seasons shown for the data as it is, with labels to
\* show, after a recompute stored rows and its watermark.
DryRunDoesNotPersistWitness ==
    /\ response["c1"].kind = "dry_run"
    /\ response["c1"].season = NULL
    /\ response["c1"].results # {}
    /\ hist.dry = hist.ver
    /\ wrestler_highlights # EmptyBag
    /\ team_highlights # EmptyBag
    /\ highlight_runs # <<>>

\* C25: the counter a full or incremental recompute of a season is about
\* to report as `added` is the number of wrestler_highlights rows plus
\* team_highlights rows of the season that the run stored.
ReportedCountIsStored ==
    \A c \in Conns :
        (pc[c] = "recorded" /\ lock = c) =>
            inserted[c]
               = BagCardinality(SeasonRows(txn.wh, req[c].season))
                 + BagCardinality(SeasonRows(txn.th, req[c].season))

\* C26: every stored match whose winner_side is not NULL has a
\* match_participants row on that side, after any imports and match edits.
WinningSideInvariant ==
    \A i \in DOMAIN matches :
        matches[i].winner_side # NULL =>
            \E p \in match_participants :
                p[1] = i /\ p[2] = matches[i].winner_side

\* C27: the watermark row a recompute of a season is about to commit is
\* the position of the match history from which the run derived its labels:
\* some state of the history yields both the run's results and that row, so
\* a match imported after the labels were derived is not covered by it.
WatermarkOfSnapshot ==
    \A c \in Conns :
        (pc[c] = "recorded" /\ lock = c) =>
            \E k \in 0 .. Len(matches) :
                /\ results[c]
                      = dry_run_all(MatchesAt(k), ParticipantsAt(k), req[c].season)
                /\ txn.runs[Len(txn.runs)]
                      = WatermarkOf(MatchesAt(k), req[c].season)

\* C28: when an incremental recompute of a season returns, as a no-op or
\* after its commit, the stored rows of the season are the rows a full
\* recompute of the season stores from the matches, participants and teams
\* as they are, whatever imports, match edits and team edits came before.
IncrementalNeverStale ==
    [][\A c \in Conns, s \in Seasons :
          /\ (PersistIncrStart(c, s) /\ response'[c].kind = "unchanged") =>
                Stored(wrestler_highlights, team_highlights, s)
                   = FullRecompute(highlight_types, wrestler_highlights,
                                   team_highlights, matches, match_participants,
                                   tag_team_members, s)
          /\ (CommitRun(c) /\ req[c].op = "incr" /\ req[c].season = s) =>
                Stored(wrestler_highlights', team_highlights', s)
                   = FullRecompute(highlight_types, wrestler_highlights,
                                   team_highlights, matches, match_participants,
                                   tag_team_members, s)]_vars

\* Whether _label_id finds or registers a row of the label.
LabelResolves(types, label) ==
    /\ _label_id(types, label).id \in DOMAIN _label_id(types, label).types
    /\ _label_id(types, label).types[_label_id(types, label).id][2] = label

\* C29: the wrestler_highlights rows of a season that a full recompute on
\* unchanged data is about to leave committed stand, read through
\* highlight_types, for exactly the <<wrestler, label>> pairs dry_run_all
\* gives for the season, one row per pair; and _label_id resolves every
\* label the derivation can give, whatever rows highlight_types holds.
PersistedEqualsDryRun ==
    /\ \A l \in OtherFamilyLabels \cup UNION {TitleLabels(T) : T \in FinalsOnly} :
          LabelResolves(highlight_types, l)
    /\ \A c \in Conns :
          (/\ pc[c] = "recorded"
           /\ lock = c
           /\ req[c].op = "all"
           /\ hist.run[c].ver = hist.ver) =>
              /\ StoredLabels(txn.types, txn.wh, req[c].season)
                    = dry_run_all(matches, match_participants, req[c].season)
              /\ BagCardinality(SeasonRows(txn.wh, req[c].season))
                    = Cardinality(dry_run_all(matches, match_participants,
                                              req[c].season))

\* A full recompute of season 1 with labels to store, run after the labels
\* were registered by an earlier run and seeded afterwards.
PersistedEqualsDryRunWitness ==
    /\ pc["c1"] = "recorded"
    /\ lock = "c1"
    /\ req["c1"] = [op |-> "all", season |-> 1]
    /\ hist.run["c1"].ver = hist.ver
    /\ dry_run_all(matches, match_participants, 1) # {}
    /\ Len(txn.types) > Len(SeedRows)

\* The highlight_runs rows of a season, in their order.
RunsOf(runs, season) == SelectSeq(runs, LAMBDA r : r.season = season)

\* C30: a step of a full or incremental recompute of a season that changes
\* the highlight tables leaves, for every other season, its
\* wrestler_highlights rows, its team_highlights rows and its highlight_runs
\* rows as they were, and with them the answer of the test that makes an
\* incremental recompute of that other season a no-op.
SeasonIsolation ==
    [][\A c \in Conns, t \in Seasons :
          (pc[c] # "idle" /\ req[c].season # t /\ hlvars' # hlvars) =>
              /\ SeasonRows(wrestler_highlights', t) = SeasonRows(wrestler_highlights, t)
              /\ SeasonRows(team_highlights', t) = SeasonRows(team_highlights, t)
              /\ RunsOf(highlight_runs', t) = RunsOf(highlight_runs, t)
              /\ Unchanged(highlight_runs', matches', t)
                    = Unchanged(highlight_runs, matches, t)]_vars

\* A recompute of season 1 has just committed its rows and its watermark
\* while season 2 holds wrestler rows, a team row and a watermark of its own.
SeasonIsolationWitness ==
    /\ hist.done # NoHist
    /\ hist.done.season = 1
    /\ BagToSet(SeasonRows(wrestler_highlights, 1)) # {}
    /\ BagToSet(SeasonRows(wrestler_highlights, 2)) # {}
    /\ BagToSet(SeasonRows(team_highlights, 2)) # {}
    /\ Len(RunsOf(highlight_runs, 1)) = 1
    /\ Len(RunsOf(highlight_runs, 2)) = 1
    /\ Unchanged(highlight_runs, matches, 2)

====
